---- MODULE Spec2Model ----
(***************************************************************************)
(* Model of the qualtiva-website-tests repository: the results uploader    *)
(* (scripts/aqa-post-results.ps1) and the global setup hook of the test    *)
(* run (global-setup.js, two definitions in the repository).               *)
(***************************************************************************)
EXTENDS Integers, Sequences, FiniteSets, TLC

(***************************************************************************)
(* Bounds of the model.                                                    *)
(***************************************************************************)
\* largest number of entries the results directory holds
MaxFiles == 2

\* largest number of page errors one page raises in one phase of its load
MaxPageErrors == 1

\* largest number of pages the page under test opens
MaxPopups == 1

\* largest number of images, and of clickable elements, on the page
MaxElements == 2

\* largest length of the lists of navigation links tried in every
\* combination; two longer lists are tried besides
MaxLinks == 2

\* largest number of headings on the page
MaxHeadings == 3

\* largest number of console messages the page emits while it loads
MaxMessages == 2

(***************************************************************************)
(* Text.  File names and wildcard patterns are sequences of characters so  *)
(* that the -like matching of Get-ChildItem is computed, not assumed.      *)
(***************************************************************************)
results == <<"r", "e", "s", "u", "l", "t", "s">>
xml == <<".", "x", "m", "l">>
junit == <<"j", "u", "n", "i", "t">>

mailtoScheme ==
  <<"m", "a", "i", "l", "t", "o", ":">>

telScheme ==
  <<"t", "e", "l", ":">>

hashSign ==
  <<"#">>

httpPrefix ==
  <<"h", "t", "t", "p">>

analytiqaCloud ==
  <<"a", "n", "a", "l", "y", "t", "i", "q", "a", ".", "c", "l", "o",
    "u", "d">>

qualtivaSolutions ==
  <<"q", "u", "a", "l", "t", "i", "v", "a", ".", "s", "o", "l", "u",
    "t", "i", "o", "n", "s">>

favicon ==
  <<"f", "a", "v", "i", "c", "o", "n">>

analytics ==
  <<"a", "n", "a", "l", "y", "t", "i", "c", "s">>

thirdParty ==
  <<"t", "h", "i", "r", "d", "-", "p", "a", "r", "t", "y">>

Chars(s) ==
  CASE s = "*results.xml" -> <<"*">> \o results \o xml
    [] s = "*results*.xml" -> <<"*">> \o results \o <<"*">> \o xml
    [] s = "*junit*.xml" -> <<"*">> \o junit \o <<"*">> \o xml
    [] s = "test-results.xml" -> <<"t", "e", "s", "t", "-">> \o results \o xml
    [] s = "junit-results.xml" -> junit \o <<"-">> \o results \o xml
    [] s = "results-2.xml" -> results \o <<"-", "2">> \o xml
    [] s = "junit-1.xml" -> junit \o <<"-", "1">> \o xml
    [] s = "results.txt" -> results \o <<".", "t", "x", "t">>
    [] s = "" -> << >>
    [] s = "mailto:hi" -> mailtoScheme \o <<"h", "i">>
    [] s = "tel:1" -> telScheme \o <<"1">>
    [] s = "#top" -> hashSign \o <<"t", "o", "p">>
    [] s = "/about" -> <<"/", "a", "b", "o", "u", "t">>
    [] s = "https://qualtiva.solutions/a" ->
         httpPrefix \o <<"s", ":", "/", "/">> \o qualtivaSolutions
           \o <<"/", "a">>
    [] s = "https://x.io/" ->
         httpPrefix \o <<"s", ":", "/", "/", "x", ".", "i", "o", "/">>
    [] s = "https://x.io/?u=qualtiva.solutions" ->
         httpPrefix \o <<"s", ":", "/", "/", "x", ".", "i", "o", "/", "?",
                         "u", "=">> \o qualtivaSolutions
    [] s = "GET /favicon.ico 404" ->
         <<"G", "E", "T", " ", "/">> \o favicon
           \o <<".", "i", "c", "o", " ", "4", "0", "4">>
    [] s = "Favicon" -> <<"F">> \o Tail(favicon)
    [] s = "analytics blocked" ->
         analytics \o <<" ", "b", "l", "o", "c", "k", "e", "d">>
    [] s = "third-party cookie" ->
         thirdParty \o <<" ", "c", "o", "o", "k", "i", "e">>
    [] s = "TypeError" -> <<"T", "y", "p", "e", "E", "r", "r", "o", "r">>

\* wildcard match of Get-ChildItem -Path <dir>/<pattern>: '*' stands for any
\* run of characters, every other character for itself
RECURSIVE Like(_, _)
Like(s, p) ==
  IF p = <<>> THEN s = <<>>
  ELSE IF Head(p) = "*"
       THEN Like(s, Tail(p)) \/ (s # <<>> /\ Like(Tail(s), p))
       ELSE s # <<>> /\ Head(s) = Head(p) /\ Like(Tail(s), Tail(p))

(***************************************************************************)
(* Parameters of aqa-post-results.ps1.                                     *)
(***************************************************************************)
\* the defaults of the param() block
ParamDefault ==
  [ResultsDir |-> "./test-results", FileFilter |-> "*results.xml",
   ResultFormat |-> "junit", Engine |-> "selenium", Hours |-> 72,
   Tags |-> "", Team |-> "", Project |-> "", Application |-> "",
   Product |-> "", Environment |-> ""]

\* the defaults the comment-based help (.PARAMETER) states
DocDefault ==
  [ResultsDir |-> "./test-results", FileFilter |-> "*results*.xml",
   ResultFormat |-> "junit", Engine |-> "pester", Hours |-> 72,
   Tags |-> "", Team |-> "", Project |-> "", Application |-> "",
   Product |-> "", Environment |-> ""]

\* command lines the model runs the script with: the parameters bound on each
CommandLines ==
  { << >>,
    [Hours |-> 24],
    [Hours |-> 0 - 1],
    [Engine |-> "playwright"],
    [FileFilter |-> "*results*.xml", Hours |-> 0],
    [FileFilter |-> "*junit*.xml", ResultFormat |-> "nunit",
     Engine |-> "playwright", Tags |-> "regression,smoke", Team |-> "web",
     Project |-> "site", Application |-> "www", Product |-> "qualtiva",
     Environment |-> "dev"] }

\* the value of a parameter in effect: the bound value, else the default
Param(bound, name) ==
  IF name \in DOMAIN bound THEN bound[name] ELSE ParamDefault[name]

(***************************************************************************)
(* Environment, file system and server.                                    *)
(***************************************************************************)
requiredEnvVars == <<"AQA_USER", "AQA_PASSWORD", "AQA_ENDPOINT">>

EnvVarNames == {requiredEnvVars[i] : i \in 1..Len(requiredEnvVars)}

EnvValue ==
  [AQA_USER |-> "qa-user", AQA_PASSWORD |-> "s3cret",
   AQA_ENDPOINT |-> "https://qa.example/in-http"]

\* an environment is the set of variables that exist, each with its value
Environments == SUBSET EnvVarNames

\* values of AQA_USER and AQA_PASSWORD: a variable that exists may be empty
\* (Test-Path "env:NAME", line 102, asks only whether it exists)
Users == {EnvValue.AQA_USER, ""}
Passwords == {EnvValue.AQA_PASSWORD, "hunter2", ""}

EnvValues ==
  [AQA_USER : Users, AQA_PASSWORD : Passwords,
   AQA_ENDPOINT : {EnvValue.AQA_ENDPOINT}]

\* hours on the clock; the script starts at StartTime
StartTime == 200

\* last-write times of the files: 100 h, exactly 72 h and 0 h before the start
WriteTimes == {StartTime - 100, StartTime - 72, StartTime}

\* names the directory may hold, in the order Get-ChildItem lists them
DirNames == <<"junit-1.xml", "junit-results.xml", "results-2.xml",
              "results.txt", "test-results.xml">>

\* the raw text of a result file
FileContent(name) == <<"xml of", name>>

RECURSIVE Listings(_)
\* every listing of the names DirNames[i..], each name absent or present
Listings(i) ==
  IF i > Len(DirNames) THEN {<<>>}
  ELSE LET rest == Listings(i + 1)
       IN rest \cup
          { <<[Name |-> DirNames[i], LastWriteTime |-> t, Readable |-> r,
               Content |-> FileContent(DirNames[i])]>> \o l :
              t \in WriteTimes, r \in BOOLEAN, l \in rest }

Directories == { l \in Listings(1) : Len(l) <= MaxFiles }

\* statuses Invoke-WebRequest hands back as a response
ReturnedStatuses == {200, 299, 300}

\* statuses carried by the exception Invoke-WebRequest throws; NullStatus
\* when the exception has no response (no connection)
NullStatus == 0
ThrownStatuses == {NullStatus, 404, 500}

\* exitCode while the script runs
Running == 0 - 1

(***************************************************************************)
(* State of one run of aqa-post-results.ps1.                               *)
(***************************************************************************)
VARIABLES
  env,          \* the environment variables that exist
  values,       \* the value of each environment variable that exists
  bound,        \* the parameters bound on the command line
  dirExists,    \* whether ResultsDir is a directory
  entries,      \* what Get-ChildItem finds in ResultsDir
  upc,          \* position in the script
  missing,      \* $missing
  aqaUser, aqaPassword, aqaEndpoint,
  cutoffTime,   \* $cutoffTime
  files,        \* $files
  fi,           \* index in $files of the file the foreach is at
  posts,        \* the requests Invoke-WebRequest has sent, in order
  responses,    \* what the server did with each request, in order
  out,          \* the lines written to the console, in order
  exitCode,     \* exit status of the script, Running until it ends
  twin          \* a second run of the script with the same inputs and the
                \* same server responses, AQA_PASSWORD alone differing: its
                \* password, its console output and its exit status

uvars == <<env, values, twin, bound, dirExists, entries, upc, missing,
           aqaUser, aqaPassword,
           aqaEndpoint, cutoffTime, files, fi, posts, responses, out, exitCode>>

(***************************************************************************)
(* The test run: global setup, the tests, global teardown.                 *)
(* The repository holds two definitions of globalSetup; Definitions names  *)
(* them in source order and a run uses one of them.                        *)
(***************************************************************************)
VARIABLES
  definition,   \* which definition of globalSetup the run loads
  rpc,          \* position in globalSetup
  browser,      \* "none", "open" or "closed"
  thrown,       \* an error is on its way out of the outer try block
  setupResult,  \* "pending", "resolved" or "rejected"
  console,      \* what the hooks wrote to the console, in order
  failures,     \* the steps of globalSetup that threw
  stateFile,    \* whether global-state.json exists
  resultsDir,   \* whether the directory test-results exists
  summary,      \* content of test-results/summary.json, NoSummary if none
  outcome,      \* "none" until the tests have run, then "passed" or "failed"
  phase         \* "setup", "tests", "teardown", "finished", "aborted", or
                \* "teardown rejected" had globalTeardown thrown

rvars == <<definition, rpc, browser, thrown, setupResult, console, failures,
           stateFile,
           resultsDir, summary, outcome, phase>>

(***************************************************************************)
(* One run of run.sh, and the configuration the test runner loads when     *)
(* run.sh starts it.                                                       *)
(***************************************************************************)
VARIABLES
  arg1,         \* $1, "" when there is none
  baseUrl,      \* $BASE_URL, "" when unset
  ci,           \* the environment variable CI: [set, value]
  tools,        \* which of node, npm and package.json are there
  reportExists, \* whether the directory playwright-report exists
  shpc,         \* position in run.sh
  shout,        \* the lines run.sh printed, in order
  started,      \* the commands run.sh started, in order, with their status
  runConfig,    \* the configuration of the test run, NoConfig before one
  shexit        \* exit status of run.sh, Running until it ends

svars == <<arg1, baseUrl, ci, tools, reportExists, shpc, shout, started,
           runConfig, shexit>>

(***************************************************************************)
(* One test of the suite, run against one page.                            *)
(***************************************************************************)
VARIABLES
  test,            \* the test that runs
  site,            \* what the page under test is and does
  tpc,             \* position in the test
  contextListener, \* whether context.on('page', ...) is registered
  listening,       \* the pages that have a pageerror listener of the test
  raised,          \* the page errors raised so far, on any page
  errors,          \* the array errors of the test
  verdict          \* "running", "passed" or "failed"

tvars == <<test, site, tpc, contextListener, listening, raised, errors,
           verdict>>

VARIABLES
  project,        \* the project of playwright.config.js the test runs under
  offline,        \* whether the browser context is offline
  location,       \* where the page is: "blank", "/" or the href it followed
  examined,       \* the navigation links examined so far, by position
  clicked,        \* the navigation links clicked so far, by position
  shown,          \* the links only checked for visibility, by position
  consoleErrors,  \* the array consoleErrors of the test
  used            \* what the body of the test did with the page, in order

pvars == <<project, offline, location, examined, clicked, shown,
           consoleErrors, used>>

\* what a step inside a test body leaves alone
tkept == <<test, site, contextListener, listening, raised, errors, verdict>>

vars == <<uvars, rvars, svars, tvars, pvars>>

NoConfig == [baseURL |-> "none"]

\* a page that loads, with a visible body, one h1 and nothing else
PlainSite ==
  [loads |-> TRUE, reloads |-> TRUE, idle |-> TRUE, errorsDuringLoad |-> 0,
   errorsAfterLoad |-> 0, popups |-> << >>, bodyVisible |-> TRUE,
   window |-> {"navigator"}, images |-> << >>, clickables |-> << >>,
   h1 |-> 1, links |-> << >>, headings |-> <<1>>, messages |-> << >>,
   cached |-> FALSE, menuButton |-> "none", mobileMenu |-> "none"]

NoProject == [name |-> "none", device |-> "none"]

\* no test started
TestIdle ==
  /\ test = "none" /\ site = PlainSite /\ tpc = "idle"
  /\ contextListener = FALSE /\ listening = {} /\ raised = << >>
  /\ errors = << >> /\ verdict = "running"
  /\ project = NoProject /\ offline = FALSE /\ location = "blank"
  /\ examined = << >> /\ clicked = << >> /\ shown = << >>
  /\ consoleErrors = << >> /\ used = << >>

\* run.sh before it is started
ShellIdle ==
  /\ arg1 = "" /\ baseUrl = "" /\ ci = [set |-> FALSE, value |-> ""]
  /\ tools = {} /\ reportExists = FALSE /\ shpc = "idle" /\ shout = << >>
  /\ started = << >> /\ runConfig = NoConfig /\ shexit = Running

NoSummary == [project |-> "none"]

NoTwin == [password |-> "", out |-> << >>, exitCode |-> 0 - 1]

\* the uploader before it is started
UploaderIdle ==
  /\ env = {} /\ bound = << >> /\ dirExists = FALSE /\ entries = << >>
  /\ values = EnvValue /\ twin = NoTwin
  /\ upc = "idle" /\ missing = << >>
  /\ aqaUser = "" /\ aqaPassword = "" /\ aqaEndpoint = ""
  /\ cutoffTime = 0 /\ files = << >> /\ fi = 0
  /\ posts = << >> /\ responses = << >> /\ out = << >>
  /\ exitCode = Running

\* the test run before it is started
RunIdle ==
  /\ definition = 1 /\ rpc = "idle" /\ browser = "none" /\ thrown = FALSE
  /\ setupResult = "pending" /\ console = << >> /\ failures = {}
  /\ stateFile = FALSE
  /\ resultsDir = FALSE /\ summary = NoSummary /\ outcome = "none"
  /\ phase = "idle"

Line(kind, file, status, data) ==
  [kind |-> kind, file |-> file, status |-> status, data |-> data]

\* the loop over the required variables leaving at the first missing one
MissingFirst(e) ==
  LET all == SelectSeq(requiredEnvVars, LAMBDA v : v \notin e)
  IN IF all = << >> THEN << >> ELSE << Head(all) >>

\* lines 101-105: the required variables that do not exist, in order
Missing(e) == SelectSeq(requiredEnvVars, LAMBDA v : v \notin e)

\* line 123: (Get-Date).AddHours(-$Hours)
CutoffTime(b) == StartTime - Param(b, "Hours")

\* Get-ChildItem on the directory alone, the filter left out
MatchingAll(listing, b) == listing

\* lines 133-134: the entries whose name matches ResultsDir/FileFilter
Matching(listing, b) ==
  SelectSeq(listing,
            LAMBDA f : Like(Chars(f.Name), Chars(Param(b, "FileFilter"))))

\* the age check with -le in place of -lt
TooOldOrEqual(file, cutoff) == file.LastWriteTime <= cutoff

\* line 145: the file age check
TooOld(file, cutoff) == file.LastWriteTime < cutoff

\* $headers with the values of aqa-team and aqa-project exchanged
HeadersSwapped(b) ==
  ("Content-Type" :> "application/xml")
  @@ ("Test-Engine-Result-Format" :> Param(b, "ResultFormat"))
  @@ ("Test-Engine" :> Param(b, "Engine"))
  @@ ("Tags" :> Param(b, "Tags"))
  @@ ("aqa-team" :> Param(b, "Project"))
  @@ ("aqa-project" :> Param(b, "Team"))
  @@ ("aqa-application" :> Param(b, "Application"))
  @@ ("aqa-product" :> Param(b, "Product"))
  @@ ("aqa-environment" :> Param(b, "Environment"))

\* lines 153-163: $headers
Headers(b) ==
  ("Content-Type" :> "application/xml")
  @@ ("Test-Engine-Result-Format" :> Param(b, "ResultFormat"))
  @@ ("Test-Engine" :> Param(b, "Engine"))
  @@ ("Tags" :> Param(b, "Tags"))
  @@ ("aqa-team" :> Param(b, "Team"))
  @@ ("aqa-project" :> Param(b, "Project"))
  @@ ("aqa-application" :> Param(b, "Application"))
  @@ ("aqa-product" :> Param(b, "Product"))
  @@ ("aqa-environment" :> Param(b, "Environment"))

\* lines 166-167 and 182-190: the request handed to Invoke-WebRequest
Request(file, b, user, password, endpoint) ==
  [Uri |-> endpoint, Method |-> "Post", Headers |-> Headers(b),
   Body |-> file.Content,
   Credential |-> [UserName |-> user, Password |-> password]]

\* a request that is sent a second time
SentTwice(sent, request) == Append(Append(sent, request), request)

\* line 198: Invoke-WebRequest sends the request, once
Sent(sent, request) == Append(sent, request)

\* the status-code branch with -le 300 in place of -lt 300
IsSuccessUpTo300(statusCode) == statusCode >= 200 /\ statusCode <= 300

\* line 203: the status-code branch
IsSuccess(statusCode) == statusCode >= 200 /\ statusCode < 300

\* lines 150 and 173-175: what is printed before the try block
Announce(file, b, user, endpoint) ==
  << Line("posting", file.Name, NullStatus, <<>>),
     Line("debug", file.Name, NullStatus,
          [Endpoint |-> endpoint, User |-> user, Headers |-> Headers(b)]) >>

\* a catch block that swallows the error without a word
CatchSilently(file, statusCode, endpoint) == << >>

\* lines 216-226: the catch block
Catch(file, statusCode, endpoint) ==
  << Line("failed", file.Name, statusCode, <<>>) >>
  \o (IF statusCode = 404
      THEN << Line("hint404", file.Name, statusCode, endpoint) >>
      ELSE << >>)

\* lines 166-167: ConvertTo-SecureString does not take an empty string, nor
\* PSCredential an empty user name; the call that fails, "" when none does
CredentialFault(user, password) ==
  IF password = "" THEN "ConvertTo-SecureString"
  ELSE IF user = "" THEN "PSCredential" ELSE ""

\* lines 150 and 166-167 with $ErrorActionPreference = 'Stop' (line 95): the
\* error of the failing call is written and the script ends there
CredentialError(file, fault) ==
  << Line("posting", file.Name, NullStatus, <<>>),
     Line("error", file.Name, NullStatus, fault) >>

\* the twin prints the same lines, as long as it runs
TwinSays(lines) ==
  IF twin.exitCode = Running THEN [twin EXCEPT !.out = @ \o lines] ELSE twin

\* the twin prints the same lines and ends with the same status
TwinEnds(lines, code) ==
  IF twin.exitCode = Running
  THEN [twin EXCEPT !.out = @ \o lines, !.exitCode = code]
  ELSE twin

\* the twin at a file it does not skip: lines 166-167 with its own password,
\* then the lines this file brings given the same server response
TwinAtFile(file, lines) ==
  IF twin.exitCode # Running THEN twin
  ELSE LET fault == CredentialFault(aqaUser, twin.password)
       IN IF fault # ""
          THEN [twin EXCEPT !.out = @ \o CredentialError(file, fault),
                            !.exitCode = 1]
          ELSE [twin EXCEPT !.out = @ \o lines]

UploaderInit ==
  /\ env \in Environments
  /\ values \in EnvValues
  /\ twin \in {[password |-> p, out |-> << >>, exitCode |-> Running] :
                 p \in Passwords \ {values.AQA_PASSWORD}}
  /\ bound \in CommandLines
  /\ dirExists \in BOOLEAN
  /\ entries = << >>
  /\ upc = "start"
  /\ missing = << >>
  /\ aqaUser = ""
  /\ aqaPassword = ""
  /\ aqaEndpoint = ""
  /\ cutoffTime = 0
  /\ files = << >>
  /\ fi = 0
  /\ posts = << >>
  /\ responses = << >>
  /\ out = << >>
  /\ exitCode = Running
  /\ RunIdle /\ ShellIdle /\ TestIdle

\* lines 97-114.  $ErrorActionPreference is 'Stop' (line 95), so Write-Error
\* ends the script; either way the process ends with status 1.
CheckEnv ==
  /\ upc = "start"
  /\ missing' = Missing(env)
  /\ IF Len(missing') > 0
     THEN /\ out' = Append(out, Line("error", "", NullStatus, missing'))
          /\ twin' = TwinEnds(<< Line("error", "", NullStatus, missing') >>,
                              1)
          /\ exitCode' = 1
          /\ upc' = "exited"
          /\ UNCHANGED <<aqaUser, aqaPassword, aqaEndpoint>>
     ELSE /\ aqaUser' = values.AQA_USER
          /\ aqaPassword' = values.AQA_PASSWORD
          /\ aqaEndpoint' = values.AQA_ENDPOINT
          /\ upc' = "validate"
          /\ UNCHANGED <<out, exitCode, twin>>
  /\ UNCHANGED <<env, values, bound, dirExists, entries, cutoffTime, files, fi,
                 posts,
                 responses>>
  /\ UNCHANGED <<rvars, svars, tvars, pvars>>

\* lines 116-120
ValidateDir ==
  /\ upc = "validate"
  /\ IF ~dirExists
     THEN /\ out' = Append(out, Line("error", "", NullStatus,
                                     Param(bound, "ResultsDir")))
          /\ twin' = TwinEnds(<< Line("error", "", NullStatus,
                                      Param(bound, "ResultsDir")) >>, 1)
          /\ exitCode' = 1
          /\ upc' = "exited"
     ELSE /\ upc' = "find"
          /\ UNCHANGED <<out, exitCode, twin>>
  /\ UNCHANGED <<env, values, bound, dirExists, entries, missing, aqaUser,
                 aqaPassword,
                 aqaEndpoint, cutoffTime, files, fi, posts,
                 responses>>
  /\ UNCHANGED <<rvars, svars, tvars, pvars>>

\* lines 122-139
FindFiles ==
  /\ upc = "find"
  /\ cutoffTime' = CutoffTime(bound)
  /\ \E listing \in Directories :
       /\ entries' = listing
       /\ files' = Matching(listing, bound)
  /\ LET banner == Line("banner", "", NullStatus,
                        [Endpoint |-> aqaEndpoint,
                         FileFilter |-> Param(bound, "FileFilter"),
                         Engine |-> Param(bound, "Engine"),
                         Tags |-> Param(bound, "Tags"),
                         Cutoff |-> cutoffTime',
                         Hours |-> Param(bound, "Hours")])
     IN IF files' = << >>
        THEN /\ out' = out \o << banner,
                                  Line("warning", "", NullStatus,
                                       Param(bound, "FileFilter")) >>
             /\ twin' = TwinEnds(<< banner,
                                     Line("warning", "", NullStatus,
                                          Param(bound, "FileFilter")) >>, 0)
             /\ exitCode' = 0
             /\ upc' = "exited"
             /\ fi' = fi
        ELSE /\ out' = Append(out, banner)
             /\ twin' = TwinSays(<< banner >>)
             /\ fi' = 1
             /\ upc' = "loop"
             /\ UNCHANGED exitCode
  /\ UNCHANGED <<env, values, bound, dirExists, missing, aqaUser, aqaPassword,
                 aqaEndpoint, posts, responses>>
  /\ UNCHANGED <<rvars, svars, tvars, pvars>>

InLoop == upc = "loop" /\ fi <= Len(files)

\* lines 145-148: an old file is skipped
SkipFile ==
  /\ InLoop
  /\ TooOld(files[fi], cutoffTime)
  /\ out' = Append(out, Line("skip", files[fi].Name, NullStatus,
                             files[fi].LastWriteTime))
  /\ twin' = TwinSays(<< Line("skip", files[fi].Name, NullStatus,
                              files[fi].LastWriteTime) >>)
  /\ fi' = fi + 1
  /\ UNCHANGED <<env, values, bound, dirExists, entries, upc, missing, aqaUser,
                 aqaPassword, aqaEndpoint, cutoffTime, files, posts, responses,
                 exitCode>>
  /\ UNCHANGED <<rvars, svars, tvars, pvars>>

\* lines 150-167: building the credential fails, outside the try block, and
\* the error ends the script with status 1
CredentialThrows ==
  /\ InLoop
  /\ ~TooOld(files[fi], cutoffTime)
  /\ CredentialFault(aqaUser, aqaPassword) # ""
  /\ out' = out \o CredentialError(files[fi],
                                   CredentialFault(aqaUser, aqaPassword))
  /\ twin' = TwinAtFile(files[fi],
                        Announce(files[fi], bound, aqaUser, aqaEndpoint))
  /\ exitCode' = 1
  /\ upc' = "exited"
  /\ UNCHANGED <<env, values, bound, dirExists, entries, missing, aqaUser,
                 aqaPassword, aqaEndpoint, cutoffTime, files, fi, posts,
                 responses>>
  /\ UNCHANGED <<rvars, svars, tvars, pvars>>

\* lines 150-179 and 215-229: Get-Content throws, the catch block logs it
ReadFails ==
  /\ InLoop
  /\ ~TooOld(files[fi], cutoffTime)
  /\ CredentialFault(aqaUser, aqaPassword) = ""
  /\ ~files[fi].Readable
  /\ LET lines == Announce(files[fi], bound, aqaUser, aqaEndpoint)
                    \o Catch(files[fi], NullStatus, aqaEndpoint)
                    \o << Line("---", files[fi].Name, NullStatus, <<>>) >>
     IN /\ out' = out \o lines
        /\ twin' = TwinAtFile(files[fi], lines)
  /\ fi' = fi + 1
  /\ UNCHANGED <<env, values, bound, dirExists, entries, upc, missing, aqaUser,
                 aqaPassword, aqaEndpoint, cutoffTime, files, posts, responses,
                 exitCode>>
  /\ UNCHANGED <<rvars, svars, tvars, pvars>>

\* lines 150-213 and 229: the request is sent and a response comes back
PostReturns ==
  /\ InLoop
  /\ ~TooOld(files[fi], cutoffTime)
  /\ CredentialFault(aqaUser, aqaPassword) = ""
  /\ files[fi].Readable
  /\ posts' = Sent(posts, Request(files[fi], bound, aqaUser, aqaPassword,
                                  aqaEndpoint))
  /\ \E statusCode \in ReturnedStatuses :
       LET lines == Announce(files[fi], bound, aqaUser, aqaEndpoint)
                      \o << Line(IF IsSuccess(statusCode)
                                  THEN "success" ELSE "unexpected",
                                  files[fi].Name, statusCode, <<>>),
                            Line("---", files[fi].Name, NullStatus, <<>>) >>
       IN /\ responses' = Append(responses, [file |-> files[fi].Name,
                                             kind |-> "returned",
                                             status |-> statusCode])
          /\ out' = out \o lines
          /\ twin' = TwinAtFile(files[fi], lines)
  /\ fi' = fi + 1
  /\ UNCHANGED <<env, values, bound, dirExists, entries, upc, missing, aqaUser,
                 aqaPassword, aqaEndpoint, cutoffTime, files, exitCode>>
  /\ UNCHANGED <<rvars, svars, tvars, pvars>>

\* lines 150-198 and 215-229: the request is sent and Invoke-WebRequest throws
PostThrows ==
  /\ InLoop
  /\ ~TooOld(files[fi], cutoffTime)
  /\ CredentialFault(aqaUser, aqaPassword) = ""
  /\ files[fi].Readable
  /\ posts' = Sent(posts, Request(files[fi], bound, aqaUser, aqaPassword,
                                  aqaEndpoint))
  /\ \E statusCode \in ThrownStatuses :
       LET lines == Announce(files[fi], bound, aqaUser, aqaEndpoint)
                      \o Catch(files[fi], statusCode, aqaEndpoint)
                      \o << Line("---", files[fi].Name, NullStatus, <<>>) >>
       IN /\ responses' = Append(responses, [file |-> files[fi].Name,
                                             kind |-> "thrown",
                                             status |-> statusCode])
          /\ out' = out \o lines
          /\ twin' = TwinAtFile(files[fi], lines)
  /\ fi' = fi + 1
  /\ UNCHANGED <<env, values, bound, dirExists, entries, upc, missing, aqaUser,
                 aqaPassword, aqaEndpoint, cutoffTime, files, exitCode>>
  /\ UNCHANGED <<rvars, svars, tvars, pvars>>

\* line 232 and the end of the script
Finish ==
  /\ upc = "loop"
  /\ fi > Len(files)
  /\ out' = Append(out, Line("done", "", NullStatus, <<>>))
  /\ twin' = TwinEnds(<< Line("done", "", NullStatus, <<>>) >>, 0)
  /\ exitCode' = 0
  /\ upc' = "exited"
  /\ UNCHANGED <<env, values, bound, dirExists, entries, missing, aqaUser,
                 aqaPassword,
                 aqaEndpoint, cutoffTime, files, fi, posts,
                 responses>>
  /\ UNCHANGED <<rvars, svars, tvars, pvars>>

UploaderNext ==
  \/ CheckEnv
  \/ ValidateDir
  \/ FindFiles
  \/ SkipFile
  \/ CredentialThrows
  \/ ReadFails
  \/ PostReturns
  \/ PostThrows
  \/ Finish

Definitions == {1, 2}

\* does the definition wrap the health check in a try block of its own
\* (lines 73-91 of the second definition; the first has none)
HasInnerTry(d) == d = 2

RunInit ==
  /\ definition \in Definitions
  /\ rpc = "launch"
  /\ browser = "none"
  /\ thrown = FALSE
  /\ setupResult = "pending"
  /\ console = << >>
  /\ failures = {}
  /\ stateFile \in BOOLEAN
  /\ resultsDir \in BOOLEAN
  /\ summary = NoSummary
  /\ outcome = "none"
  /\ phase = "setup"
  /\ UploaderIdle /\ ShellIdle /\ TestIdle

\* a step outside the try block throws: the promise rejects at once, and
\* neither the catch nor the finally block runs
Reject(step) ==
  /\ failures' = failures \cup {step}
  /\ setupResult' = "rejected"
  /\ rpc' = "done"
  /\ phase' = "aborted"

\* lines 22-25 / 63-66: the announcement, then chromium.launch()
Launch ==
  /\ phase = "setup" /\ rpc = "launch"
  /\ console' = Append(console, [level |-> "log", text |-> "starting"])
  /\ \E ok \in BOOLEAN :
       IF ok
       THEN /\ browser' = "open"
            /\ rpc' = "newContext"
            /\ UNCHANGED <<failures, setupResult, phase>>
       ELSE /\ Reject("launch")
            /\ UNCHANGED browser
  /\ UNCHANGED <<definition, thrown, stateFile, resultsDir, summary, outcome>>
  /\ UNCHANGED <<uvars, svars, tvars, pvars>>

\* lines 26 / 67: browser.newContext(), before the try block
NewContext ==
  /\ phase = "setup" /\ rpc = "newContext"
  /\ \E ok \in BOOLEAN :
       IF ok
       THEN /\ rpc' = "newPage"
            /\ UNCHANGED <<failures, setupResult, phase>>
       ELSE Reject("newContext")
  /\ UNCHANGED <<definition, browser, thrown, console, stateFile, resultsDir,
                 summary, outcome>>
  /\ UNCHANGED <<uvars, svars, tvars, pvars>>

\* lines 27 / 68: context.newPage(), before the try block
NewPage ==
  /\ phase = "setup" /\ rpc = "newPage"
  /\ \E ok \in BOOLEAN :
       IF ok
       THEN /\ rpc' = "goto"
            /\ UNCHANGED <<failures, setupResult, phase>>
       ELSE Reject("newPage")
  /\ UNCHANGED <<definition, browser, thrown, console, stateFile, resultsDir,
                 summary, outcome>>
  /\ UNCHANGED <<uvars, svars, tvars, pvars>>

\* a step of the health check throws, c being the console so far.
\* Second definition: the inner catch (lines 87-91) warns and the function
\* goes on to save the storage state.  First definition: the outer catch
\* (lines 51-53) logs the error and rethrows it.
HealthCheckFails(d, step, c) ==
  /\ failures' = failures \cup {step}
  /\ IF HasInnerTry(d)
     THEN /\ console' = c \o
                        << [level |-> "warn", text |-> "could not verify"],
                           [level |-> "log", text |-> "proceeding"] >>
          /\ rpc' = "storageState"
          /\ UNCHANGED thrown
     ELSE /\ console' = Append(c, [level |-> "error",
                                   text |-> "setup failed"])
          /\ thrown' = TRUE
          /\ rpc' = "close"

\* lines 31-32 / 72-74: the announcement, then page.goto()
Goto ==
  /\ phase = "setup" /\ rpc = "goto"
  /\ LET c == Append(console, [level |-> "log", text |-> "checking"])
     IN \E ok \in BOOLEAN :
          IF ok
          THEN /\ console' = c
               /\ rpc' = "waitForLoadState"
               /\ UNCHANGED <<failures, thrown>>
          ELSE HealthCheckFails(definition, "goto", c)
  /\ UNCHANGED <<definition, browser, setupResult, stateFile, resultsDir,
                 summary, outcome, phase>>
  /\ UNCHANGED <<uvars, svars, tvars, pvars>>

\* lines 33 / 75: page.waitForLoadState('networkidle')
WaitForLoadState ==
  /\ phase = "setup" /\ rpc = "waitForLoadState"
  /\ \E ok \in BOOLEAN :
       IF ok
       THEN /\ rpc' = "title"
            /\ UNCHANGED <<failures, thrown, console>>
       ELSE HealthCheckFails(definition, "waitForLoadState", console)
  /\ UNCHANGED <<definition, browser, setupResult, stateFile, resultsDir,
                 summary, outcome, phase>>
  /\ UNCHANGED <<uvars, svars, tvars, pvars>>

\* lines 36-44 / 78-86: page.title() and the success message
Title ==
  /\ phase = "setup" /\ rpc = "title"
  /\ \E ok \in BOOLEAN :
       IF ok
       THEN /\ console' = Append(console,
                                 [level |-> "log", text |-> "loaded"])
            /\ rpc' = "storageState"
            /\ UNCHANGED <<failures, thrown>>
       ELSE HealthCheckFails(definition, "title", console)
  /\ UNCHANGED <<definition, browser, setupResult, stateFile, resultsDir,
                 summary, outcome, phase>>
  /\ UNCHANGED <<uvars, svars, tvars, pvars>>

\* a catch block that ends without throw
Swallowed == FALSE

\* lines 51-53 / 98-100: the outer catch ends with throw error
Rethrown == TRUE

\* lines 47-53 / 94-100: context.storageState({ path: 'global-state.json' });
\* a failure is logged by the outer catch and rethrown
StorageState ==
  /\ phase = "setup" /\ rpc = "storageState"
  /\ \E ok \in BOOLEAN :
       IF ok
       THEN /\ stateFile' = TRUE
            /\ console' = Append(console,
                                 [level |-> "log", text |-> "setup completed"])
            /\ UNCHANGED <<failures, thrown>>
       ELSE /\ failures' = failures \cup {"storageState"}
            /\ console' = Append(console,
                                 [level |-> "error", text |-> "setup failed"])
            /\ thrown' = Rethrown
            /\ UNCHANGED stateFile
  /\ rpc' = "close"
  /\ UNCHANGED <<definition, browser, setupResult, resultsDir, summary,
                 outcome, phase>>
  /\ UNCHANGED <<uvars, svars, tvars, pvars>>

\* lines 54-56 / 101-103: the finally block, then the function settles
CloseBrowser ==
  /\ phase = "setup" /\ rpc = "close"
  /\ browser' = "closed"
  /\ rpc' = "done"
  /\ setupResult' = IF thrown THEN "rejected" ELSE "resolved"
  /\ phase' = IF thrown THEN "aborted" ELSE "tests"
  /\ UNCHANGED <<definition, thrown, console, failures, stateFile, resultsDir,
                 summary, outcome>>
  /\ UNCHANGED <<uvars, svars, tvars, pvars>>

\* the framework runs the tests once globalSetup has resolved; what they
\* leave in test-results is up to them
RunTests ==
  /\ phase = "tests"
  /\ \E o \in {"passed", "failed"} : outcome' = o
  /\ \E d \in BOOLEAN : resultsDir' = d
  /\ phase' = "teardown"
  /\ UNCHANGED <<definition, rpc, browser, thrown, setupResult, console,
                 failures, stateFile, summary>>
  /\ UNCHANGED <<uvars, svars, tvars, pvars>>

\* a teardown with nothing to clean up
NoTempFiles == {}

\* the files globalTeardown removes
tempFiles == {"global-state.json"}

\* a summary that leaves the test categories out
SummaryWithoutCategories ==
  [project |-> "Qualtiva Solutions Website Tests",
   browsers |-> <<"chromium", "firefox", "webkit", "Mobile Chrome",
                  "Mobile Safari", "iPad", "Edge", "Low-end Device">>,
   totalBrowsers |-> 8,
   testCategories |-> << >>]

\* a summary that lists the browsers as the README names them
SummaryWithReadmeNames ==
  [project |-> "Qualtiva Solutions Website Tests",
   browsers |-> <<"Chrome", "Firefox", "Safari", "Edge", "Mobile Chrome",
                  "Mobile Safari", "iPad", "Low-end Device">>,
   totalBrowsers |-> 8,
   testCategories |-> <<"Home Page", "Navigation", "Contact Forms",
                        "Accessibility", "Performance",
                        "Web Build Best Practices",
                        "Cross-browser Compatibility",
                        "Mobile Responsiveness">>]

\* the summary object of globalTeardown
Summary ==
  [project |-> "Qualtiva Solutions Website Tests",
   browsers |-> <<"chromium", "firefox", "webkit", "Mobile Chrome",
                  "Mobile Safari", "iPad", "Edge", "Low-end Device">>,
   totalBrowsers |-> 8,
   testCategories |-> <<"Home Page", "Navigation", "Contact Forms",
                        "Accessibility", "Performance",
                        "Web Build Best Practices",
                        "Cross-browser Compatibility",
                        "Mobile Responsiveness">>]

\* a catch block that passes the error on to the framework
CatchThrowsAgain == TRUE

\* lines 53-55: the catch block of globalTeardown logs and throws nothing
CatchThrows == FALSE

\* globalTeardown: one synchronous body.  unlinkSync and writeFileSync may
\* throw; writeFileSync throws when test-results does not exist; whatever is
\* thrown is caught and logged.
GlobalTeardown ==
  /\ phase = "teardown"
  /\ \E unlinkOk \in BOOLEAN, writeOk \in BOOLEAN :
       LET toRemove == "global-state.json" \in tempFiles /\ stateFile
           c0 == Append(console, [level |-> "log", text |-> "teardown"])
           c1 == IF toRemove
                 THEN Append(c0, [level |-> "log", text |-> "cleaned up"])
                 ELSE c0
           \* the catch block; a teardown that throws fails the run
           caught(c) ==
             /\ console' = Append(c, [level |-> "error",
                                      text |-> "teardown failed"])
             /\ outcome' = IF CatchThrows THEN "failed" ELSE outcome
             /\ phase' = IF CatchThrows THEN "teardown rejected"
                         ELSE "finished"
       IN IF toRemove /\ ~unlinkOk
          THEN /\ caught(c0)
               /\ UNCHANGED <<stateFile, summary>>
          ELSE /\ stateFile' = (stateFile /\ ~toRemove)
               /\ IF resultsDir /\ writeOk
                  THEN /\ summary' = Summary
                       /\ console' = c1 \o
                            << [level |-> "log", text |-> "teardown completed"],
                               [level |-> "log", text |-> "summary saved"] >>
                       /\ phase' = "finished"
                       /\ UNCHANGED outcome
                  ELSE /\ caught(c1)
                       /\ UNCHANGED summary
  /\ UNCHANGED <<definition, rpc, browser, thrown, setupResult, failures,
                 resultsDir>>
  /\ UNCHANGED <<uvars, svars, tvars, pvars>>

RunNext ==
  \/ Launch
  \/ NewContext
  \/ NewPage
  \/ Goto
  \/ WaitForLoadState
  \/ Title
  \/ StorageState
  \/ CloseBrowser
  \/ RunTests
  \/ GlobalTeardown

(***************************************************************************)
(* playwright.config.js.                                                   *)
(***************************************************************************)
\* the values CI has in the model: unset, empty, and three non-empty ones
CiValues ==
  { [set |-> FALSE, value |-> ""], [set |-> TRUE, value |-> ""],
    [set |-> TRUE, value |-> "true"], [set |-> TRUE, value |-> "false"],
    [set |-> TRUE, value |-> "0"] }

\* a test on the text of the variable in place of its truthiness
IsTrueText(v) == v.set /\ v.value = "true"

\* process.env.CI as a condition: undefined and '' are falsy, every other
\* string is truthy
Truthy(v) == v.set /\ v.value # ""

\* lines 3-15: what defineConfig is given; workers is << >> for undefined
Config(ciVar) ==
  [forbidOnly |-> Truthy(ciVar),
   retries |-> IF Truthy(ciVar) THEN 2 ELSE 0,
   workers |-> IF Truthy(ciVar) THEN <<1>> ELSE << >>,
   baseURL |-> "https://dev.analytiqa.cloud"]

(***************************************************************************)
(* run.sh.                                                                 *)
(***************************************************************************)
DefaultBaseUrl == "https://www-dev.analytiqa.cloud/"

\* the first arguments the model gives run.sh; "" is no argument
Arguments ==
  {"", "help", "bogus", "setup", "all", "desktop", "mobile", "performance",
   "accessibility", "best-practices", "cross-browser", "mobile-responsive",
   "ci", "codegen", "report"}

BaseUrls == {"", "https://www.qualtiva.solutions"}

Tools == {"node", "npm", "package.json"}

\* what is installed: everything, or one thing missing
ToolSets == {Tools} \cup {Tools \ {t} : t \in Tools}

\* exit statuses of the commands run.sh starts
Statuses == {0, 1, 2}

\* lines 194-225: the branches of the case statement that call run_tests,
\* with the npm script and the description they pass
TestBranch ==
  [all |-> [script |-> "test:all-browsers",
            description |-> "All browser tests"],
   desktop |-> [script |-> "test:desktop",
                description |-> "Desktop browser tests"],
   mobile |-> [script |-> "test:mobile",
               description |-> "Mobile browser tests"],
   performance |-> [script |-> "test:performance",
                    description |-> "Performance tests"],
   accessibility |-> [script |-> "test:accessibility",
                      description |-> "Accessibility tests"]]
  @@ ("best-practices" :> [script |-> "test:best-practices",
                           description |-> "Web build best practices tests"])
  @@ ("cross-browser" :> [script |-> "test:cross-browser",
                          description |-> "Cross-browser compatibility tests"])
  @@ ("mobile-responsive" :> [script |-> "test:mobile-responsive",
                              description |-> "Mobile responsiveness tests"])

\* the branches that begin with check_dependencies
NeedsDependencies == DOMAIN TestBranch \cup {"setup", "ci", "codegen"}

\* a printed line: its kind, its fixed text and the value it names, if any
SayAbout(level, text, about) ==
  [level |-> level, text |-> text, about |-> about]

Say(level, text) == SayAbout(level, text, "")

Cmd(command, argument, status) ==
  [command |-> command, argument |-> argument, status |-> status]

ShellInit ==
  /\ arg1 \in Arguments
  /\ baseUrl \in BaseUrls
  /\ ci \in CiValues
  /\ tools \in ToolSets
  /\ reportExists \in BOOLEAN
  /\ shpc = "case"
  /\ shout = << >>
  /\ started = << >>
  /\ runConfig = NoConfig
  /\ shexit = Running
  /\ UploaderIdle /\ RunIdle /\ TestIdle

\* lines 152-184 and 254-256: "help", no argument or any other word
show_help ==
  /\ shpc = "case"
  /\ arg1 \notin NeedsDependencies \cup {"report"}
  /\ shout' = Append(shout, Say("echo", "usage"))
  /\ shexit' = 0
  /\ shpc' = "exited"
  /\ UNCHANGED <<arg1, baseUrl, ci, tools, reportExists, started, runConfig>>
  /\ UNCHANGED <<uvars, rvars, tvars, pvars>>

\* lines 246-253: "report"
report ==
  /\ shpc = "case"
  /\ arg1 = "report"
  /\ IF reportExists
     THEN \E status \in Statuses :
            /\ shout' = Append(shout, Say("info", "Opening test report..."))
            /\ started' = Append(started, Cmd("npm run", "report", status))
            /\ shexit' = status
     ELSE /\ shout' = Append(shout, Say("warning", "No test report found."))
          /\ shexit' = 0
          /\ UNCHANGED started
  /\ shpc' = "exited"
  /\ UNCHANGED <<arg1, baseUrl, ci, tools, reportExists, runConfig>>
  /\ UNCHANGED <<uvars, rvars, tvars, pvars>>

\* lines 91-111: the first thing every other branch does
check_dependencies ==
  /\ shpc = "case"
  /\ arg1 \in NeedsDependencies
  /\ LET info == Append(shout, Say("info", "Checking dependencies..."))
     IN IF "node" \notin tools
        THEN /\ shout' = Append(info, Say("error", "Node.js is not installed."))
             /\ shexit' = 1 /\ shpc' = "exited"
        ELSE IF "npm" \notin tools
        THEN /\ shout' = Append(info, Say("error", "npm is not installed."))
             /\ shexit' = 1 /\ shpc' = "exited"
        ELSE IF "package.json" \notin tools
        THEN /\ shout' = Append(info, Say("error", "package.json not found."))
             /\ shexit' = 1 /\ shpc' = "exited"
        ELSE /\ shout' = Append(info, Say("success",
                                          "Dependencies check passed"))
             /\ shpc' = arg1
             /\ UNCHANGED shexit
  /\ UNCHANGED <<arg1, baseUrl, ci, tools, reportExists, started, runConfig>>
  /\ UNCHANGED <<uvars, rvars, tvars, pvars>>

\* lines 132-136 and 229-233: the message about BASE_URL
AnnounceBaseUrl(url) ==
  IF url # "" THEN SayAbout("info", "Using BASE_URL:", url)
  ELSE SayAbout("info", "Using default BASE_URL:", DefaultBaseUrl)

\* line 64, set -e: a command that ends with a status other than 0 ends the
\* script with that status, unless the command is tested by if, && or ||
ErrExit(status) == status # 0

\* lines 127-149: run_tests.  npm run starts the test runner, which loads
\* playwright.config.js.  npm run is a plain command (line 141), so with a
\* status other than 0 the script ends there and lines 143-148 never run.
run_tests ==
  /\ shpc \in DOMAIN TestBranch
  /\ \E status \in Statuses :
       LET b == TestBranch[shpc]
           so_far == shout \o << SayAbout("info", "Running", b.description),
                                 AnnounceBaseUrl(baseUrl) >>
       IN /\ started' = Append(started, Cmd("npm run", b.script, status))
          /\ runConfig' = Config(ci)
          /\ IF ErrExit(status)
             THEN /\ shout' = so_far
                  /\ shexit' = status
             ELSE /\ shout' = Append(so_far,
                                     SayAbout("success",
                                              "completed successfully",
                                              b.description))
                  /\ shexit' = 0
  /\ shpc' = "exited"
  /\ UNCHANGED <<arg1, baseUrl, ci, tools, reportExists>>
  /\ UNCHANGED <<uvars, rvars, tvars, pvars>>

\* lines 226-239: "ci"; the status of the last command is that of the script
ci_tests ==
  /\ shpc = "ci"
  /\ \E status \in Statuses :
       /\ started' = Append(started,
                            Cmd("npx playwright test",
                                "--reporter=html,junit,json", status))
       /\ shexit' = status
  /\ runConfig' = Config(ci)
  /\ shout' = shout \o << Say("info", "Running tests with CI reporters..."),
                          AnnounceBaseUrl(baseUrl) >>
  /\ shpc' = "exited"
  /\ UNCHANGED <<arg1, baseUrl, ci, tools, reportExists>>
  /\ UNCHANGED <<uvars, rvars, tvars, pvars>>

\* lines 240-245: "codegen".  The branch is not inside a function, so local
\* (line 242) fails with status 1 and set -e ends the script before line 244.
codegen ==
  /\ shpc = "codegen"
  /\ LET localStatus == 1
     IN IF ErrExit(localStatus)
        THEN /\ shout' = Append(shout,
                                Say("bash", "local: can only be used in a function"))
             /\ shexit' = localStatus
             /\ UNCHANGED started
        ELSE \E status \in Statuses :
               LET codegen_url == IF baseUrl # "" THEN baseUrl
                                  ELSE DefaultBaseUrl
               IN /\ shout' = Append(shout,
                                     SayAbout("info",
                                              "Launching Playwright codegen for:",
                                              codegen_url))
                  /\ started' = Append(started,
                                       Cmd("npx playwright codegen",
                                           codegen_url, status))
                  /\ shexit' = status
  /\ shpc' = "exited"
  /\ UNCHANGED <<arg1, baseUrl, ci, tools, reportExists, runConfig>>
  /\ UNCHANGED <<uvars, rvars, tvars, pvars>>

\* lines 113-125 and 188-193: "setup": npm install, then the browsers
setup ==
  /\ shpc = "setup"
  /\ \E npmStatus \in Statuses, npxStatus \in Statuses :
       LET c1 == Append(started, Cmd("npm", "install", npmStatus))
           o1 == Append(shout, Say("info", "Installing dependencies..."))
           c2 == Append(c1, Cmd("npx playwright install", "--with-deps",
                                npxStatus))
           o2 == o1 \o << Say("success", "Dependencies installed"),
                          Say("info", "Installing Playwright browsers...") >>
       IN IF ErrExit(npmStatus)
          THEN started' = c1 /\ shout' = o1 /\ shexit' = npmStatus
          ELSE IF ErrExit(npxStatus)
          THEN started' = c2 /\ shout' = o2 /\ shexit' = npxStatus
          ELSE /\ started' = c2
               /\ shout' = o2 \o << Say("success", "Browsers installed"),
                                    Say("success", "Setup completed successfully") >>
               /\ shexit' = 0
  /\ shpc' = "exited"
  /\ UNCHANGED <<arg1, baseUrl, ci, tools, reportExists, runConfig>>
  /\ UNCHANGED <<uvars, rvars, tvars, pvars>>

ShellNext ==
  \/ show_help
  \/ report
  \/ check_dependencies
  \/ run_tests
  \/ ci_tests
  \/ codegen
  \/ setup

(***************************************************************************)
(* The projects of playwright.config.js.                                   *)
(***************************************************************************)
\* lines 28-130: the projects, with the device each one spreads into use
projects ==
  << [name |-> "chromium", device |-> "Desktop Chrome"],
     [name |-> "firefox", device |-> "Desktop Firefox"],
     [name |-> "webkit", device |-> "Desktop Safari"],
     [name |-> "Mobile Chrome", device |-> "Pixel 5"],
     [name |-> "Mobile Safari", device |-> "iPhone 12"],
     [name |-> "iPad", device |-> "iPad Pro 11 landscape"],
     [name |-> "Edge", device |-> "Desktop Chrome"],
     [name |-> "Low-end Device", device |-> "Desktop Chrome"] >>

(***************************************************************************)
(* The tests.  A test runs beforeEach and then its body; the first         *)
(* assertion or action that fails ends it as failed.                       *)
(***************************************************************************)
Tests ==
  {"smoke9", "android", "images", "touchTargets", "mobileA11y",
   "networkIssues", "navigate", "headings", "consoleErrors", "mobileMenu",
   "mobileBrowsers", "orientation", "bestTouchTargets", "responsive"}

\* the tests of performance.spec.js, which has no beforeEach
NoBeforeEach == {"consoleErrors"}

\* the tests whose beforeEach waits for the network to be idle after goto
WaitsForIdle == {"images", "networkIssues", "mobileBrowsers", "orientation"}

\* the tests whose body is inside if (isMobile)
GuardedTests ==
  {"mobileMenu", "mobileBrowsers", "orientation", "bestTouchTargets",
   "responsive"}

\* the fixtures a device descriptor of the framework gives a project
Device(device) ==
  CASE device = "Pixel 5" -> [isMobile |-> TRUE, width |-> 393]
    [] device = "iPhone 12" -> [isMobile |-> TRUE, width |-> 390]
    [] device = "iPad Pro 11 landscape" -> [isMobile |-> TRUE, width |-> 1194]
    [] OTHER -> [isMobile |-> FALSE, width |-> 1280]

\* the fixture isMobile of the test
isMobile == Device(project.device).isMobile

Range(f) == { f[x] : x \in DOMAIN f }

UpTo(S, n) == UNION { [1..k -> S] : k \in 0..n }

\* an element's bounding box, NoBox when boundingBox() returns null
NoBox == [width |-> 0, height |-> 0]

Boxes == {NoBox} \cup [width : {43, 44}, height : {43, 44}]

Images == [src : BOOLEAN, visible : BOOLEAN, alt : BOOLEAN]

\* the href attributes of the navigation links; "" is a link without one
Hrefs ==
  {"", "mailto:hi", "tel:1", "#top", "/about",
   "https://qualtiva.solutions/a", "https://x.io/",
   "https://x.io/?u=qualtiva.solutions"}

\* Math.min(linkCount, 10)
LinkLimit == 10

\* lists longer than the limit
LongLists == { [i \in 1..(LinkLimit + 1) |-> h] : h \in {"#top", "/about"} }

\* the console messages a page emits: msg.type() and msg.text()
Messages ==
  [type : {"error", "warning"},
   text : {"GET /favicon.ico 404", "Favicon", "analytics blocked",
           "third-party cookie", "TypeError"}]

\* whether an element the tests look for is on the page, and visible
Presence == {"none", "hidden", "visible"}

\* the pages each test is run against: what the test reads varies
Sites(t) ==
  CASE t = "smoke9" ->
         { [PlainSite EXCEPT !.loads = l, !.idle = i, !.errorsDuringLoad = d,
                             !.errorsAfterLoad = a, !.popups = p] :
             l \in BOOLEAN, i \in BOOLEAN, d \in 0..MaxPageErrors,
             a \in 0..MaxPageErrors,
             p \in UpTo(0..MaxPageErrors, MaxPopups) }
    [] t = "android" ->
         { [PlainSite EXCEPT !.loads = l, !.reloads = r, !.bodyVisible = b,
                             !.window = {"navigator"} \cup w] :
             l \in BOOLEAN, r \in BOOLEAN, b \in BOOLEAN,
             w \in SUBSET {"ontouchstart", "navigator.userAgent"} }
    [] t = "images" ->
         { [PlainSite EXCEPT !.loads = l, !.images = im] :
             l \in BOOLEAN, im \in UpTo(Images, MaxElements) }
    [] t = "networkIssues" ->
         { [PlainSite EXCEPT !.loads = l, !.cached = c, !.bodyVisible = b] :
             l \in BOOLEAN, c \in BOOLEAN, b \in BOOLEAN }
    [] t = "navigate" ->
         { [PlainSite EXCEPT !.links = ls] :
             ls \in UpTo(Hrefs, MaxLinks) \cup LongLists }
    [] t = "headings" ->
         { [PlainSite EXCEPT !.loads = l, !.headings = hs] :
             l \in BOOLEAN, hs \in UpTo(1..6, MaxHeadings) }
    [] t = "consoleErrors" ->
         { [PlainSite EXCEPT !.loads = l, !.messages = ms] :
             l \in BOOLEAN, ms \in UpTo(Messages, MaxMessages) }
    [] t = "mobileMenu" ->
         { [PlainSite EXCEPT !.loads = l, !.menuButton = b, !.mobileMenu = m] :
             l \in BOOLEAN, b \in Presence, m \in Presence }
    [] t = "mobileBrowsers" ->
         { [PlainSite EXCEPT !.loads = l, !.menuButton = b, !.clickables = c] :
             l \in BOOLEAN, b \in Presence, c \in UpTo(Boxes, 1) }
    [] t = "orientation" ->
         { [PlainSite EXCEPT !.loads = l, !.idle = i, !.reloads = r,
                             !.bodyVisible = b] :
             l \in BOOLEAN, i \in BOOLEAN, r \in BOOLEAN, b \in BOOLEAN }
    [] t = "bestTouchTargets" ->
         { [PlainSite EXCEPT !.loads = l, !.clickables = c] :
             l \in BOOLEAN, c \in UpTo(Boxes, MaxElements) }
    [] t = "responsive" ->
         { [PlainSite EXCEPT !.loads = l, !.menuButton = b] :
             l \in BOOLEAN, b \in Presence }
    [] t = "touchTargets" ->
         { [PlainSite EXCEPT !.reloads = r, !.clickables = c] :
             r \in BOOLEAN, c \in UpTo(Boxes, MaxElements) }
    [] t = "mobileA11y" ->
         { [PlainSite EXCEPT !.reloads = r, !.h1 = h, !.images = im] :
             r \in BOOLEAN, h \in 0..2, im \in UpTo(Images, MaxElements) }

TestInit ==
  /\ test \in Tests
  /\ site \in Sites(test)
  /\ tpc = IF test \in NoBeforeEach THEN test ELSE "beforeEach"
  /\ contextListener = FALSE
  /\ listening = {}
  /\ raised = << >>
  /\ errors = << >>
  /\ verdict = "running"
  /\ project \in (IF test \in GuardedTests THEN Range(projects)
                  ELSE {projects[1]})
  /\ offline = FALSE
  /\ location = "blank"
  /\ examined = << >>
  /\ clicked = << >>
  /\ shown = << >>
  /\ consoleErrors = << >>
  /\ used = << >>
  /\ UploaderIdle /\ RunIdle /\ ShellIdle

\* the n page errors a page raises
PageErrors(page, during, n) ==
  [i \in 1..n |-> [page |-> page, during |-> during, n |-> i]]

\* page.on('pageerror', error => errors.push(error.message)): what the
\* array gets of the errors a page raises
Pushed(listeners, page, es) == IF page \in listeners THEN es ELSE << >>

\* a number of JavaScript that is the result of dividing two counts
NaN == [kind |-> "NaN", num |-> 0, den |-> 1]

Infinity == [kind |-> "Infinity", num |-> 1, den |-> 1]

\* a / b for counts a and b
Divide(a, b) ==
  IF b = 0 THEN (IF a = 0 THEN NaN ELSE Infinity)
  ELSE [kind |-> "finite", num |-> a, den |-> b]

\* expect(x).toBeGreaterThan(num / den): every comparison with NaN is false
GreaterThan(x, num, den) ==
  CASE x.kind = "NaN" -> FALSE
    [] x.kind = "Infinity" -> TRUE
    [] OTHER -> x.num * den > num * x.den

\* the positions of a list of elements
Nth(elements) == 1..Len(elements)

\* the end of a test
Ends(passed) ==
  /\ verdict' = IF passed THEN "passed" ELSE "failed"
  /\ tpc' = "done"

\* test.beforeEach of the three files: page.goto('/'), which resolves at the
\* load event, and in two of the files a waitForLoadState.  The errors the
\* page raises while it loads are raised here.
beforeEach ==
  /\ tpc = "beforeEach"
  /\ LET es == PageErrors("main", "load", site.errorsDuringLoad)
     IN /\ raised' = raised \o es
        /\ errors' = errors \o Pushed(listening, "main", es)
  /\ IF site.loads /\ (test \in WaitsForIdle => site.idle)
     THEN tpc' = test /\ UNCHANGED verdict
     ELSE Ends(FALSE)
  /\ location' = IF site.loads THEN "/" ELSE location
  /\ UNCHANGED <<test, site, contextListener, listening>>
  /\ UNCHANGED <<project, offline, examined, clicked, shown, consoleErrors,
                 used>>
  /\ UNCHANGED <<uvars, rvars, svars>>

\* test 9, lines 123-128: context.on('page', ...) is registered; the
\* callback runs for pages the context creates from now on
ContextOnPage ==
  /\ tpc = "smoke9"
  /\ contextListener' = TRUE
  /\ tpc' = "waitForLoadState"
  /\ UNCHANGED <<test, site, listening, raised, errors, verdict>>
  /\ UNCHANGED <<uvars, rvars, svars, pvars>>

\* the errors of the popups, in order; a popup gets a listener when the
\* context listener is there as it opens
RECURSIVE PopupErrors(_, _, _)
PopupErrors(popups, k, listens) ==
  IF k > Len(popups) THEN << >>
  ELSE LET page == <<"popup", k>>
           es == PageErrors(page, "idle", popups[k])
       IN IF listens THEN es \o PopupErrors(popups, k + 1, listens)
          ELSE PopupErrors(popups, k + 1, listens)

\* test 9, line 129: page.waitForLoadState('networkidle').  Until the
\* network is idle the page may raise more errors and open pages, which
\* raise errors of their own.
WaitForNetworkIdle ==
  /\ tpc = "waitForLoadState"
  /\ LET es == PageErrors("main", "idle", site.errorsAfterLoad)
         opened == { <<"popup", k>> : k \in 1..Len(site.popups) }
         all == es \o PopupErrors(site.popups, 1, TRUE)
     IN /\ listening' = IF contextListener THEN listening \cup opened
                        ELSE listening
        /\ raised' = raised \o all
        /\ errors' = errors \o Pushed(listening, "main", es)
                            \o PopupErrors(site.popups, 1, contextListener)
  /\ IF site.idle THEN tpc' = "expect" /\ UNCHANGED verdict
     ELSE Ends(FALSE)
  /\ UNCHANGED <<test, site, contextListener>>
  /\ UNCHANGED <<uvars, rvars, svars, pvars>>

\* test 9, line 130: expect(errors.length).toBe(0)
ExpectNoErrors ==
  /\ tpc = "expect"
  /\ Ends(Len(errors) = 0)
  /\ UNCHANGED <<test, site, contextListener, listening, raised, errors>>
  /\ UNCHANGED <<uvars, rvars, svars, pvars>>

\* 'prop' in window
In(prop, window) == prop \in window

\* 'should work on Android devices'
ShouldWorkOnAndroidDevices ==
  /\ tpc = "android"
  /\ LET hasAndroidFeatures ==
           /\ In("ontouchstart", site.window)
           /\ In("navigator.userAgent", site.window)
     IN Ends(site.reloads /\ site.bodyVisible /\ hasAndroidFeatures)
  /\ UNCHANGED <<test, site, contextListener, listening, raised, errors>>
  /\ UNCHANGED <<uvars, rvars, svars, pvars>>

\* 'should handle images consistently'
ShouldHandleImagesConsistently ==
  /\ tpc = "images"
  /\ LET Loaded(img) == img.src /\ img.visible
         Failed(img) == img.src /\ ~img.visible
         images == site.images
         loadedImages == Cardinality({ i \in Nth(images) : Loaded(images[i]) })
         failedImages == Cardinality({ i \in Nth(images) : Failed(images[i]) })
         successRate == Divide(loadedImages, loadedImages + failedImages)
     IN Ends(GreaterThan(successRate, 8, 10))
  /\ UNCHANGED <<test, site, contextListener, listening, raised, errors>>
  /\ UNCHANGED <<uvars, rvars, svars, pvars>>

\* 'should have proper touch targets'
ShouldHaveProperTouchTargets ==
  /\ tpc = "touchTargets"
  /\ LET Proper(box) == box # NoBox /\ box.width >= 44 /\ box.height >= 44
         Small(box) == box # NoBox /\ ~(box.width >= 44 /\ box.height >= 44)
         boxes == site.clickables
         properTouchTargets ==
           Cardinality({ i \in Nth(boxes) : Proper(boxes[i]) })
         smallTouchTargets ==
           Cardinality({ i \in Nth(boxes) : Small(boxes[i]) })
         successRate == Divide(properTouchTargets,
                               properTouchTargets + smallTouchTargets)
     IN Ends(site.reloads /\ GreaterThan(successRate, 8, 10))
  /\ UNCHANGED <<test, site, contextListener, listening, raised, errors>>
  /\ UNCHANGED <<uvars, rvars, svars, pvars>>

\* 'should meet mobile accessibility standards'
ShouldMeetMobileAccessibilityStandards ==
  /\ tpc = "mobileA11y"
  /\ LET HasAlt(img) == img.alt
         images == site.images
         imageCount == Len(images)
         imagesWithAlt == Cardinality({ i \in Nth(images) : HasAlt(images[i]) })
         altTextRate == Divide(imagesWithAlt, imageCount)
     IN Ends(site.reloads /\ site.h1 = 1 /\ GreaterThan(altTextRate, 7, 10))
  /\ UNCHANGED <<test, site, contextListener, listening, raised, errors>>
  /\ UNCHANGED <<uvars, rvars, svars, pvars>>

\* one use of the page or of the context by the body of a test, and whether
\* it returned (ok) or threw
Use(op, arg, ok) == [op |-> op, arg |-> arg, ok |-> ok]

\* whether the last thing the body did threw
Threw == used # << >> /\ ~used[Len(used)].ok

\* a clean-up that follows the try block as an ordinary statement
AfterTry(threw) == ~threw

\* try { ... } finally { ... }: the finally block runs whether the try block
\* completed or threw
Finally(threw) == TRUE

\* 'should handle network issues gracefully', line 367:
\* page.context().setOffline(true)
SetOffline ==
  /\ tpc = "networkIssues"
  /\ offline' = TRUE
  /\ used' = Append(used, Use("setOffline", "true", TRUE))
  /\ tpc' = "try"
  /\ UNCHANGED <<project, location, examined, clicked, shown, consoleErrors>>
  /\ UNCHANGED <<uvars, rvars, svars, tkept>>

\* lines 369-370: page.goto('/') with the context offline; it resolves only
\* when the page can be had without the network
GotoOffline ==
  /\ tpc = "try"
  /\ used' = Append(used, Use("goto", "/", site.cached))
  /\ location' = IF site.cached THEN "/" ELSE location
  /\ tpc' = IF site.cached THEN "toBeVisible" ELSE "finally"
  /\ UNCHANGED <<project, offline, examined, clicked, shown, consoleErrors>>
  /\ UNCHANGED <<uvars, rvars, svars, tkept>>

\* lines 372-373: expect(body).toBeVisible()
ExpectBodyVisible ==
  /\ tpc = "toBeVisible"
  /\ used' = Append(used, Use("toBeVisible", "body", site.bodyVisible))
  /\ tpc' = "finally"
  /\ UNCHANGED <<project, offline, location, examined, clicked, shown,
                 consoleErrors>>
  /\ UNCHANGED <<uvars, rvars, svars, tkept>>

\* lines 374-378: finally { setOffline(false) }; what the try block threw is
\* thrown again after it
SetOnline ==
  /\ tpc = "finally"
  /\ IF Finally(Threw)
     THEN /\ offline' = FALSE
          /\ used' = used \o << Use("setOffline", "false", TRUE) >>
     ELSE UNCHANGED <<offline, used>>
  /\ Ends(~Threw)
  /\ UNCHANGED <<test, site, contextListener, listening, raised, errors>>
  /\ UNCHANGED <<project, location, examined, clicked, shown, consoleErrors>>
  /\ UNCHANGED <<uvars, rvars, svars>>

\* href.startsWith(prefix)
StartsWith(href, prefix) ==
  /\ Len(href) >= Len(prefix)
  /\ SubSeq(href, 1, Len(prefix)) = prefix

\* a search that looks at the start of the text only
AtStart(href, part) == StartsWith(href, part)

\* href.includes(part)
Includes(href, part) ==
  \E i \in 0..(Len(href) - Len(part)) :
    SubSeq(href, i + 1, i + Len(part)) = part

\* line 18: the links the loop passes over
PassedOver(href) ==
  \/ href = << >>
  \/ StartsWith(href, mailtoScheme)
  \/ StartsWith(href, telScheme)
  \/ StartsWith(href, hashSign)

\* line 23: the links the test takes for external ones
TakenForExternal(href) ==
  /\ StartsWith(href, httpPrefix)
  /\ ~Includes(href, analytiqaCloud)
  /\ ~Includes(href, qualtivaSolutions)

Min(a, b) == IF a < b THEN a ELSE b

\* 'should navigate to all main pages without errors', lines 14-38: one
\* turn of the loop.  What a followed link leads to, and whether a link is
\* visible, is up to the site.
ExamineLink ==
  /\ tpc = "navigate"
  /\ Len(examined) < Min(Len(site.links), LinkLimit)
  /\ LET i == Len(examined) + 1
         link == site.links[i]
         href == Chars(link)
     IN /\ examined' = Append(examined, i)
        /\ IF PassedOver(href)
           THEN UNCHANGED <<clicked, shown, location, tpc, verdict>>
           ELSE IF TakenForExternal(href)
           THEN /\ shown' = Append(shown, i)
                /\ UNCHANGED <<clicked, location>>
                /\ \E visible \in BOOLEAN :
                     IF visible THEN UNCHANGED <<tpc, verdict>>
                     ELSE Ends(FALSE)
           ELSE /\ clicked' = Append(clicked, i)
                /\ UNCHANGED shown
                /\ \E leads \in {"click throws", "never idle", "error page",
                                  "goto throws", "back home"} :
                     CASE leads = "click throws" ->
                            UNCHANGED location /\ Ends(FALSE)
                       [] leads = "back home" ->
                            location' = "/" /\ UNCHANGED <<tpc, verdict>>
                       [] OTHER -> location' = link /\ Ends(FALSE)
  /\ UNCHANGED <<test, site, contextListener, listening, raised, errors>>
  /\ UNCHANGED <<project, offline, consoleErrors, used>>
  /\ UNCHANGED <<uvars, rvars, svars>>

\* line 14: the loop ends after the last link, or after the tenth
LinksDone ==
  /\ tpc = "navigate"
  /\ ~(Len(examined) < Min(Len(site.links), LinkLimit))
  /\ Ends(TRUE)
  /\ UNCHANGED <<test, site, contextListener, listening, raised, errors>>
  /\ UNCHANGED pvars
  /\ UNCHANGED <<uvars, rvars, svars>>

\* an assertion that asks for a strictly smaller value
ToBeLessThan(x, y) == x < y

\* expect(x).toBeLessThanOrEqual(y)
ToBeLessThanOrEqual(x, y) == x <= y

\* 'should have proper heading structure': headings holds the levels of the
\* h1..h6 elements in document order
ShouldHaveProperHeadingStructure ==
  /\ tpc = "headings"
  /\ LET headings == site.headings
         h1Count == Cardinality({ i \in Nth(headings) : headings[i] = 1 })
         headingCount == Len(headings)
         hierarchy ==
           headingCount > 1 =>
             \A i \in 1..(headingCount - 1) :
               LET currentLevel == headings[i]
                   nextLevel == headings[i + 1]
               IN ToBeLessThanOrEqual(nextLevel - currentLevel, 1)
     IN Ends(h1Count = 1 /\ hierarchy)
  /\ UNCHANGED <<test, site, contextListener, listening, raised, errors>>
  /\ UNCHANGED pvars
  /\ UNCHANGED <<uvars, rvars, svars>>

\* the texts of the messages of type 'error', in order
RECURSIVE ErrorTexts(_)
ErrorTexts(messages) ==
  IF messages = << >> THEN << >>
  ELSE IF Head(messages).type = "error"
       THEN <<Head(messages).text>> \o ErrorTexts(Tail(messages))
       ELSE ErrorTexts(Tail(messages))

\* 'should not have console errors', lines 17-21: page.on('console', ...)
PageOnConsole ==
  /\ tpc = "consoleErrors"
  /\ used' = Append(used, Use("on", "console", TRUE))
  /\ tpc' = "goto"
  /\ UNCHANGED <<project, offline, location, examined, clicked, shown,
                 consoleErrors>>
  /\ UNCHANGED <<uvars, rvars, svars, tkept>>

\* lines 23-24: page.goto('/') and waitForLoadState('load').  The page emits
\* its messages while it loads; the listener, if it is there, gets them.
GotoAndLoad ==
  /\ tpc = "goto"
  /\ used' = Append(used, Use("goto", "/", site.loads))
  /\ consoleErrors' =
       IF \E i \in 1..Len(used) : used[i].op = "on" /\ used[i].arg = "console"
       THEN consoleErrors \o ErrorTexts(site.messages)
       ELSE consoleErrors
  /\ location' = IF site.loads THEN "/" ELSE location
  /\ IF site.loads THEN tpc' = "filter" /\ UNCHANGED verdict
     ELSE Ends(FALSE)
  /\ UNCHANGED <<test, site, contextListener, listening, raised, errors>>
  /\ UNCHANGED <<project, offline, examined, clicked, shown>>
  /\ UNCHANGED <<uvars, rvars, svars>>

\* lines 27-33: the filter and expect(criticalErrors).toHaveLength(0)
ExpectNoCriticalErrors ==
  /\ tpc = "filter"
  /\ LET Critical(error) ==
           /\ ~Includes(Chars(error), favicon)
           /\ ~Includes(Chars(error), analytics)
           /\ ~Includes(Chars(error), thirdParty)
         criticalErrors == SelectSeq(consoleErrors, Critical)
     IN Ends(Len(criticalErrors) = 0)
  /\ UNCHANGED <<test, site, contextListener, listening, raised, errors>>
  /\ UNCHANGED pvars
  /\ UNCHANGED <<uvars, rvars, svars>>

\* of the steps of a body, those that run: all up to the first that throws
RECURSIVE Performed(_)
Performed(steps) ==
  IF steps = << >> THEN << >>
  ELSE IF Head(steps).ok THEN <<Head(steps)>> \o Performed(Tail(steps))
       ELSE <<Head(steps)>>

AllOk(steps) == \A i \in 1..Len(steps) : steps[i].ok

\* a body without the guard
Unguarded(guard, steps) == steps

\* a body that is inside if (isMobile): it runs when the guard lets it
Guarded(guard, steps) == IF guard THEN steps ELSE << >>

\* clickableElements.first(), when there is one
First(elements) ==
  IF elements = << >> THEN << >> ELSE << Head(elements) >>

\* the end of a body made of the given steps
Body(steps) ==
  /\ used' = used \o Performed(steps)
  /\ Ends(AllOk(steps))
  /\ UNCHANGED <<test, site, contextListener, listening, raised, errors>>
  /\ UNCHANGED <<project, offline, location, examined, clicked, shown,
                 consoleErrors>>
  /\ UNCHANGED <<uvars, rvars, svars>>

\* count() of the locator of an element that may be there, and
\* expect(...).toBeVisible() when it is
VisibleIfPresent(name, presence) ==
  << Use("count", name, TRUE) >>
  \o (IF presence # "none"
      THEN << Use("toBeVisible", name, presence = "visible") >>
      ELSE << >>)

\* boundingBox() of an element and the two assertions on its size
RECURSIVE AtLeast44(_)
AtLeast44(boxes) ==
  IF boxes = << >> THEN << >>
  ELSE LET box == Head(boxes)
       IN << Use("boundingBox", "a, button", TRUE) >>
          \o (IF box # NoBox
              THEN << Use("toBeGreaterThanOrEqual", "width", box.width >= 44),
                      Use("toBeGreaterThanOrEqual", "height",
                          box.height >= 44) >>
              ELSE << >>)
          \o AtLeast44(Tail(boxes))

\* expect(page.viewportSize().width).toBeLessThanOrEqual(768)
MobileWidth ==
  << Use("viewportSize", "width", TRUE),
     Use("toBeLessThanOrEqual", "768",
         ToBeLessThanOrEqual(Device(project.device).width, 768)) >>

\* navigation.spec.js, 'should handle mobile navigation menu'
ShouldHandleMobileNavigationMenu ==
  /\ tpc = "mobileMenu"
  /\ Body(Guarded(isMobile,
        VisibleIfPresent("menu button", site.menuButton)
        \o (IF site.menuButton # "none"
            THEN << Use("click", "menu button", TRUE) >>
                 \o VisibleIfPresent("mobile menu", site.mobileMenu)
                 \o (IF site.mobileMenu # "none"
                     THEN << Use("click", "menu button", TRUE) >>
                     ELSE << >>)
            ELSE << >>)))

\* cross-browser-compatibility.spec.js, 'should work properly on mobile
\* browsers'
ShouldWorkProperlyOnMobileBrowsers ==
  /\ tpc = "mobileBrowsers"
  /\ Body(Guarded(isMobile,
        MobileWidth
        \o << Use("count", "a, button", TRUE) >>
        \o AtLeast44(First(site.clickables))
        \o VisibleIfPresent("menu button", site.menuButton)))

\* setViewportSize, reload, waitForLoadState and expect(body).toBeVisible()
Turned(orientation) ==
  << Use("setViewportSize", orientation, TRUE),
     Use("reload", orientation, site.reloads),
     Use("waitForLoadState", "networkidle", site.idle),
     Use("toBeVisible", "body", site.bodyVisible) >>

\* cross-browser-compatibility.spec.js, 'should handle orientation changes'
ShouldHandleOrientationChanges ==
  /\ tpc = "orientation"
  /\ Body(Guarded(isMobile, Turned("landscape") \o Turned("portrait")))

\* web-build-best-practices.spec.js, 'should have proper touch targets'
BestPracticesTouchTargets ==
  /\ tpc = "bestTouchTargets"
  /\ Body(Guarded(isMobile,
        << Use("count", "a, button", TRUE) >> \o AtLeast44(site.clickables)))

\* 'should be responsive on mobile devices'
ShouldBeResponsiveOnMobileDevices ==
  /\ tpc = "responsive"
  /\ Body(Guarded(isMobile,
        VisibleIfPresent("menu button", site.menuButton) \o MobileWidth))

TestNext ==
  \/ beforeEach
  \/ ContextOnPage
  \/ WaitForNetworkIdle
  \/ ExpectNoErrors
  \/ ShouldWorkOnAndroidDevices
  \/ ShouldHandleImagesConsistently
  \/ ShouldHaveProperTouchTargets
  \/ ShouldMeetMobileAccessibilityStandards
  \/ SetOffline
  \/ GotoOffline
  \/ ExpectBodyVisible
  \/ SetOnline
  \/ ExamineLink
  \/ LinksDone
  \/ ShouldHaveProperHeadingStructure
  \/ PageOnConsole
  \/ GotoAndLoad
  \/ ExpectNoCriticalErrors
  \/ ShouldHandleMobileNavigationMenu
  \/ ShouldWorkProperlyOnMobileBrowsers
  \/ ShouldHandleOrientationChanges
  \/ BestPracticesTouchTargets
  \/ ShouldBeResponsiveOnMobileDevices

(***************************************************************************)
(* Properties of the results uploader.                                     *)
(***************************************************************************)
\* the files the foreach has dealt with
Handled == IF fi = 0 THEN << >> ELSE SubSeq(files, 1, fi - 1)

HasLine(kind, name) ==
  \E i \in 1..Len(out) : out[i].kind = kind /\ out[i].file = name

HasStatusLine(kind, name, status) ==
  \E i \in 1..Len(out) :
    out[i].kind = kind /\ out[i].file = name /\ out[i].status = status

\* the requests that carry the content of the file called name
PostsOf(name) == { k \in 1..Len(posts) : posts[k].Body = FileContent(name) }

\* older than the cutoff: the start time minus the hours in effect
OlderThanCutoff(f) == f.LastWriteTime < StartTime - Param(bound, "Hours")

BatchWentThrough == fi = Len(files) + 1 /\ exitCode = 0

\* C1: a handled file whose last-write time is earlier than the cutoff (start
\* time minus Hours) has been skipped and never POSTed; a handled file whose
\* last-write time is at or after the cutoff has not been skipped.
C1_SkipIffOlderThanCutoff ==
  \A i \in 1..Len(Handled) :
    LET f == Handled[i]
    IN /\ OlderThanCutoff(f) =>
            HasLine("skip", f.Name) /\ PostsOf(f.Name) = {}
       /\ ~OlderThanCutoff(f) => ~HasLine("skip", f.Name)

\* a finished run that skipped an old file and posted a file written exactly
\* at the cutoff
C1_Witness ==
  /\ upc = "exited"
  /\ \E i, j \in 1..Len(files) :
       /\ files[i].LastWriteTime < cutoffTime
       /\ HasLine("skip", files[i].Name)
       /\ files[j].LastWriteTime = cutoffTime
       /\ PostsOf(files[j].Name) # {}

\* an upload has failed: a 'Failed to post' or 'Unexpected status' line
SomeUploadFailed ==
  \E i \in 1..Len(out) : out[i].kind \in {"failed", "unexpected"}

\* C2: every failed upload (the request throws, the server answers with a
\* status outside 2xx, the file cannot be read) is logged for its file, the
\* files after it are still posted, and the batch runs to its end.
C2_FailureDoesNotStopBatch ==
  /\ \A k \in 1..Len(responses) :
       LET r == responses[k]
       IN /\ r.kind = "thrown" => HasStatusLine("failed", r.file, r.status)
          /\ r.kind = "returned" /\ ~(r.status \in 200..299) =>
               HasStatusLine("unexpected", r.file, r.status)
  /\ \A i \in 1..Len(Handled) :
       LET f == Handled[i]
       IN ~OlderThanCutoff(f) =>
            IF f.Readable THEN PostsOf(f.Name) # {}
            ELSE HasLine("failed", f.Name)
  /\ upc = "exited" /\ SomeUploadFailed => BatchWentThrough

\* a finished run in which a file failed and a later file was posted
C2_Witness ==
  /\ upc = "exited"
  /\ \E i, j \in 1..Len(files) :
       /\ i < j
       /\ HasLine("failed", files[i].Name)
       /\ HasLine("success", files[j].Name)

\* C3: a returned status s is reported as success iff 200 <= s < 300; any
\* other returned status is reported as 'Unexpected status' only, never as a
\* failure, and the batch still runs to its end with exit status 0.
C3_SuccessIff2xx ==
  /\ \A k \in 1..Len(responses) :
       LET r == responses[k]
       IN r.kind = "returned" =>
            /\ HasStatusLine("success", r.file, r.status)
                 <=> (200 <= r.status /\ r.status < 300)
            /\ ~(200 <= r.status /\ r.status < 300) =>
                 /\ HasStatusLine("unexpected", r.file, r.status)
                 /\ ~HasLine("failed", r.file)
  /\ upc = "exited" /\ responses # << >> => BatchWentThrough

\* a finished run in which one file got 300 and a later one 299
C3_Witness ==
  /\ upc = "exited" /\ exitCode = 0
  /\ \E k, l \in 1..Len(responses) :
       /\ k < l
       /\ responses[k].kind = "returned" /\ responses[k].status = 300
       /\ responses[l].kind = "returned" /\ responses[l].status = 299

C5_MissingInputExits1 ==
  upc # "idle" /\ (env # EnvVarNames \/ ~dirExists) =>
    /\ upc \in {"start", "validate", "exited"}
    /\ entries = << >> /\ files = << >> /\ posts = << >>
    /\ upc = "exited" => exitCode = 1
    /\ upc = "exited" /\ env # EnvVarNames =>
         \E i \in 1..Len(out) :
           /\ out[i].kind = "error"
           /\ {out[i].data[n] : n \in 1..Len(out[i].data)} = EnvVarNames \ env

\* the script has ended with status 1 and two or more variables missing
C5_Witness ==
  /\ upc = "exited" /\ exitCode = 1
  /\ Cardinality(EnvVarNames \ env) >= 2
  /\ out # << >>

\* C6: every request goes to AQA_ENDPOINT with the credentials of AQA_USER and
\* AQA_PASSWORD, carries the raw content of its file, and carries exactly the
\* nine headers, with the values of the parameters, the same for all files.
C6_RequestShape ==
  /\ Len(posts) = Len(responses)
  /\ \A k \in 1..Len(posts) :
       LET p == posts[k]
       IN /\ p.Uri = values.AQA_ENDPOINT
          /\ p.Method = "Post"
          /\ p.Credential = [UserName |-> values.AQA_USER,
                             Password |-> values.AQA_PASSWORD]
          /\ p.Body = FileContent(responses[k].file)
          /\ DOMAIN p.Headers =
               {"Content-Type", "Test-Engine-Result-Format", "Test-Engine",
                "Tags", "aqa-team", "aqa-project", "aqa-application",
                "aqa-product", "aqa-environment"}
          /\ p.Headers["Content-Type"] = "application/xml"
          /\ p.Headers["Test-Engine-Result-Format"] = Param(bound, "ResultFormat")
          /\ p.Headers["Test-Engine"] = Param(bound, "Engine")
          /\ p.Headers["Tags"] = Param(bound, "Tags")
          /\ p.Headers["aqa-team"] = Param(bound, "Team")
          /\ p.Headers["aqa-project"] = Param(bound, "Project")
          /\ p.Headers["aqa-application"] = Param(bound, "Application")
          /\ p.Headers["aqa-product"] = Param(bound, "Product")
          /\ p.Headers["aqa-environment"] = Param(bound, "Environment")
          /\ \A l \in 1..Len(posts) : posts[l].Headers = p.Headers

\* two files posted by a run that was given -Team and -Project
C6_Witness ==
  /\ Len(posts) >= 2
  /\ "Team" \in DOMAIN bound /\ "Project" \in DOMAIN bound
  /\ posts[1].Body # posts[2].Body

\* C7: a parameter that is not given has the default its documentation
\* states: without -Engine the Test-Engine header sent is 'pester', without
\* -FileFilter the files selected are those matching '*results*.xml'.
C7_DocumentedDefaults ==
  /\ "Engine" \notin DOMAIN bound =>
       \A k \in 1..Len(posts) :
         posts[k].Headers["Test-Engine"] = DocDefault.Engine
  /\ "FileFilter" \notin DOMAIN bound /\ upc \in {"loop", "exited"} =>
       files = SelectSeq(entries,
                         LAMBDA f : Like(Chars(f.Name),
                                         Chars(DocDefault.FileFilter)))

\* the directory has been listed
Listed == \E i \in 1..Len(out) : out[i].kind = "banner"

NoEntryMatches ==
  \A i \in 1..Len(entries) :
    ~Like(Chars(entries[i].Name), Chars(Param(bound, "FileFilter")))

\* C8: when the environment and directory checks pass and no file matches
\* the pattern, the script warns and ends with exit status 0 without a POST.
C8_NoMatchWarnsAndExits0 ==
  env = EnvVarNames /\ dirExists /\ Listed /\ NoEntryMatches =>
    /\ upc = "exited" /\ exitCode = 0
    /\ posts = << >>
    /\ out[Len(out)].kind = "warning"
    /\ ~\E i \in 1..Len(out) : out[i].kind = "done"

\* the directory holds files, none of them matching, and the script ended
C8_Witness ==
  /\ Listed /\ NoEntryMatches /\ entries # << >>
  /\ upc = "exited" /\ exitCode = 0

\* the script has printed 'Done.' and ended with status 0
DoneAndExit0 ==
  upc = "exited" /\ exitCode = 0 /\ out[Len(out)].kind = "done"

\* C29: once the environment and directory checks have passed and at least
\* one file matches (the script is at its foreach), the script eventually
\* prints 'Done.' and ends with exit status 0.
C29_EventuallyDoneAndExit0 == (upc = "loop") ~> DoneAndExit0

\* what holds of C29: it is so whenever both calls of lines 166-167 succeed
EventuallyDoneWithCredential ==
  (upc = "loop" /\ CredentialFault(aqaUser, aqaPassword) = "") ~> DoneAndExit0

\* do two console outputs consist of the same lines
SameLines(a, b) ==
  /\ Len(a) = Len(b)
  /\ \A i \in 1..Len(a) : a[i].kind = b[i].kind /\ a[i] = b[i]

\* does a debug line (with the dumped headers) or a line of the catch block
\* show the password
ShowsPassword(line, password) ==
  /\ password # ""
  /\ \/ /\ line.kind = "debug"
        /\ \/ line.data.User = password
           \/ line.data.Endpoint = password
           \/ \E h \in DOMAIN line.data.Headers :
                line.data.Headers[h] = password
     \/ line.kind = "hint404" /\ line.data = password

\* the twin run has printed what this run printed and ended as it did, and
\* no line of this run shows AQA_PASSWORD
SameAsTwin ==
  /\ twin.exitCode = exitCode
  /\ SameLines(out, twin.out)
  /\ \A i \in 1..Len(out) : ~ShowsPassword(out[i], aqaPassword)

\* C30: the console output does not depend on the value of AQA_PASSWORD: a
\* run and its twin, which differ only in the password and get the same
\* server responses, print the same lines, and the password appears in no
\* debug line, dumped header or error message.
C30_OutputIndependentOfPassword == upc = "exited" => SameAsTwin

\* what holds of C30: it is so whenever neither password is empty
OutputIndependentOfNonEmptyPassword ==
  upc = "exited" /\ aqaPassword # "" /\ twin.password # "" => SameAsTwin

(***************************************************************************)
(* Properties of global setup.                                             *)
(***************************************************************************)
\* C9: a failure of the health-check navigation (page.goto or
\* waitForLoadState) is logged as a warning, and unless a later step fails
\* globalSetup does not throw and the run goes on to the tests.
C9_HealthCheckFailureTolerated ==
  failures \cap {"goto", "waitForLoadState"} # {} =>
    /\ \E i \in 1..Len(console) : console[i].level = "warn"
    /\ "storageState" \notin failures =>
         /\ ~thrown
         /\ setupResult # "rejected"
         /\ phase # "aborted"

\* C10: once the browser has been launched it is closed by the time
\* globalSetup has finished, whichever later step failed.
C10_BrowserClosedOnEveryPath ==
  rpc = "done" /\ browser # "none" => browser = "closed"

\* C27: when saving the storage state fails, the failure is logged as an
\* error and thrown again: globalSetup rejects, the run is aborted and goes
\* on to no test, and the browser is closed by the time globalSetup has
\* rejected.
C27_StorageStateFailureAborts ==
  "storageState" \in failures =>
    /\ \E i \in 1..Len(console) :
         console[i] = [level |-> "error", text |-> "setup failed"]
    /\ thrown
    /\ setupResult # "resolved"
    /\ phase \in {"setup", "aborted"}
    /\ rpc = "done" =>
         setupResult = "rejected" /\ phase = "aborted" /\ browser = "closed"

C27_Witness ==
  /\ "storageState" \in failures /\ "goto" \in failures
  /\ rpc = "done" /\ setupResult = "rejected" /\ browser = "closed"

(***************************************************************************)
(* Properties of global teardown and of the whole run.                     *)
(***************************************************************************)
Logged(text) == \E i \in 1..Len(console) : console[i].text = text

EightBrowserNames ==
  <<"chromium", "firefox", "webkit", "Mobile Chrome", "Mobile Safari", "iPad",
    "Edge", "Low-end Device">>

EightCategoryNames ==
  <<"Home Page", "Navigation", "Contact Forms", "Accessibility", "Performance",
    "Web Build Best Practices", "Cross-browser Compatibility",
    "Mobile Responsiveness">>

HasFixedLists(file) ==
  /\ file # NoSummary
  /\ file.browsers = EightBrowserNames
  /\ file.testCategories = EightCategoryNames

\* C11 as stated: whatever the outcome of the run and the state of the file
\* system, once globalTeardown has finished test-results/summary.json holds
\* the 8 browser profile names and the 8 test-category names.
C11_SummaryAlwaysWritten ==
  phase = "finished" => HasFixedLists(summary)

\* C11: whatever the outcome of the run, once globalTeardown has finished
\* without logging a failure test-results/summary.json holds the 8 browser
\* profile names and the 8 test-category names; when removing
\* global-state.json or writing the summary throws, the failure is logged
\* and summary.json is not written.
C11_SummaryWrittenUnlessTeardownFailed ==
  phase = "finished" =>
    IF Logged("teardown failed") THEN summary = NoSummary
    ELSE HasFixedLists(summary)

C11_Witness ==
  /\ phase = "finished" /\ outcome = "failed"
  /\ ~Logged("teardown failed") /\ HasFixedLists(summary)

\* C25: the list 'browsers' of the summary written by global teardown is the
\* list of the project names of playwright.config.js, in the same order and
\* without duplicates, and 'totalBrowsers' is its length, 8.
C25_SummaryBrowsersAreTheProjects ==
  summary # NoSummary =>
    /\ Len(summary.browsers) = Len(projects)
    /\ \A i \in 1..Len(projects) : summary.browsers[i] = projects[i].name
    /\ \A i \in 1..Len(summary.browsers) :
         \A j \in 1..Len(summary.browsers) :
           summary.browsers[i] = summary.browsers[j] => i = j
    /\ summary.totalBrowsers = Len(summary.browsers)
    /\ summary.totalBrowsers = 8

C25_Witness ==
  /\ phase = "finished" /\ outcome = "passed"
  /\ summary # NoSummary /\ Len(summary.browsers) = 8

\* C28: globalTeardown never throws.  What removing global-state.json or
\* writing the summary throws is caught and logged, globalTeardown completes
\* normally, and the outcome of the run is what it was before teardown.
C28_TeardownNeverThrows ==
  /\ [](phase # "teardown rejected")
  /\ [](phase = "finished" /\ (stateFile \/ summary = NoSummary) =>
          console[Len(console)] = [level |-> "error",
                                   text |-> "teardown failed"])
  /\ [][phase = "teardown" => phase' = "finished" /\ outcome' = outcome]_vars

C28_Witness ==
  /\ phase = "finished" /\ outcome = "passed" /\ stateFile
  /\ Logged("teardown failed")

\* C17 as stated: in a run where global setup, the tests and global
\* teardown execute in that order, global-state.json does not exist after
\* teardown has finished.
C17_StateFileGoneAfterTeardown ==
  phase = "finished" => ~stateFile

\* C17: in a run where global setup, the tests and global teardown execute
\* in that order, setup has written global-state.json by the time the tests
\* start, and after teardown the file is gone unless removing it threw, in
\* which case the failure is logged and the file is still there.
C17_StateFileGoneUnlessUnlinkFailed ==
  /\ phase \in {"tests", "teardown"} => stateFile
  /\ phase = "finished" =>
       /\ stateFile <=> ~Logged("cleaned up")
       /\ stateFile => Logged("teardown failed")

C17_Witness ==
  phase = "finished" /\ ~stateFile /\ Logged("cleaned up")

(***************************************************************************)
(* Properties of run.sh and of the configuration.                          *)
(***************************************************************************)
Printed(line) == \E i \in 1..Len(shout) : shout[i] = line

\* the test script run_tests started, if it has started one
StartedTestScript ==
  /\ shpc = "exited"
  /\ arg1 \in DOMAIN TestBranch
  /\ started # << >>

\* C12: the base URL of the test run is the value of BASE_URL, and the
\* default run.sh announces, https://www-dev.analytiqa.cloud/, when BASE_URL
\* is unset.
C12_BaseUrlSelectsSite ==
  runConfig # NoConfig =>
    runConfig.baseURL = IF baseUrl # "" THEN baseUrl
                        ELSE "https://www-dev.analytiqa.cloud/"

\* C13: when the test script started by run_tests ends with a status other
\* than 0, run.sh prints '<description> failed' as an error and exits with
\* status 1; when it ends with status 0, run.sh prints '<description>
\* completed successfully'.
C13_FailedScriptReportedAndExit1 ==
  StartedTestScript =>
    LET description == TestBranch[arg1].description
    IN IF started[1].status # 0
       THEN /\ Printed(SayAbout("error", "failed", description))
            /\ shexit = 1
       ELSE Printed(SayAbout("success", "completed successfully", description))

\* C14: once the dependency check has passed, 'codegen' launches Playwright
\* codegen against BASE_URL when it is set and against
\* https://www-dev.analytiqa.cloud/ otherwise.
C14_CodegenLaunchedAgainstBaseUrl ==
  shpc = "exited" /\ arg1 = "codegen" /\ tools = Tools =>
    \E i \in 1..Len(started) :
      /\ started[i].command = "npx playwright codegen"
      /\ started[i].argument = IF baseUrl # "" THEN baseUrl
                               ELSE "https://www-dev.analytiqa.cloud/"

\* the runner actions of each sub-command: the commands it may start
OwnCommands(subcommand) ==
  IF subcommand \in DOMAIN TestBranch
  THEN { <<"npm run", TestBranch[subcommand].script>> }
  ELSE CASE subcommand = "ci" ->
              { <<"npx playwright test", "--reporter=html,junit,json">> }
         [] subcommand = "codegen" ->
              { <<"npx playwright codegen", baseUrl>>,
                <<"npx playwright codegen", DefaultBaseUrl>> }
         [] subcommand = "setup" ->
              { <<"npm", "install">>,
                <<"npx playwright install", "--with-deps">> }
         [] subcommand = "report" -> { <<"npm run", "report">> }
         [] OTHER -> {}

SubCommands == DOMAIN TestBranch \cup {"ci", "codegen", "setup", "report"}

\* C15: with what it needs in place (node, npm and package.json, and for
\* 'report' the directory playwright-report), each sub-command starts its
\* own runner action and no other; with no first argument, 'help' or any
\* other word run.sh only prints the help text and starts nothing.
C15_EachSubCommandItsOwnAction ==
  shpc = "exited" =>
    /\ \A i \in 1..Len(started) :
         <<started[i].command, started[i].argument>> \in OwnCommands(arg1)
    /\ arg1 \in SubCommands /\ tools = Tools
         /\ (arg1 = "report" => reportExists) => started # << >>
    /\ arg1 \notin SubCommands =>
         /\ started = << >>
         /\ shout = << Say("echo", "usage") >>
         /\ shexit = 0

\* C16: retries is 2, workers is 1 and forbidOnly is true exactly when CI is
\* set to a non-empty value; otherwise retries is 0, workers is left
\* undefined and forbidOnly is false.
C16_CiSwitchesThreeSettingsTogether ==
  runConfig # NoConfig =>
    IF ci.set /\ ci.value # ""
    THEN /\ runConfig.retries = 2
         /\ runConfig.workers = <<1>>
         /\ runConfig.forbidOnly = TRUE
    ELSE /\ runConfig.retries = 0
         /\ runConfig.workers = << >>
         /\ runConfig.forbidOnly = FALSE

C16_Witness ==
  /\ runConfig # NoConfig
  /\ ci = [set |-> TRUE, value |-> "false"]
  /\ runConfig.retries = 2 /\ runConfig.workers = <<1>>
  /\ runConfig.forbidOnly

(***************************************************************************)
(* Properties of the tests.                                                *)
(***************************************************************************)
\* the page errors the page under test has raised
RaisedOnPage ==
  { i \in 1..Len(raised) : raised[i].page = "main" }

Recorded(e) == \E j \in 1..Len(errors) : errors[j] = e

\* C18: in test '9. No major errors in console', a page error the page under
\* test raises while it loads is recorded by the listener of the test and
\* the test fails; the test passes only when that page raised no page error.
C18_PageErrorRecordedAndFails ==
  test = "smoke9" /\ tpc = "done" =>
    /\ \A i \in RaisedOnPage : Recorded(raised[i]) /\ verdict = "failed"
    /\ verdict = "passed" => RaisedOnPage = {}

\* C19: 'should work on Android devices' passes on a page that loads and
\* reloads, whose body is visible, in a context that supports touch events.
C19_AndroidPassesWithTouch ==
  /\ test = "android" /\ tpc = "done"
  /\ site.loads /\ site.reloads /\ site.bodyVisible
  /\ "ontouchstart" \in site.window
  => verdict = "passed"

\* whether the page has nothing the ratio of the test counts
NothingEligible ==
  CASE test = "images" -> \A i \in 1..Len(site.images) : ~site.images[i].src
    [] test = "touchTargets" ->
         \A i \in 1..Len(site.clickables) : site.clickables[i] = NoBox
    [] test = "mobileA11y" -> site.images = << >>
    [] OTHER -> FALSE

\* C20: a ratio test (image load rate, touch-target rate, alt-text
\* coverage) passes when the page has no eligible element, so that the
\* ratio divides by zero, and nothing else in the test fails.
C20_ZeroDenominatorPasses ==
  /\ test \in {"images", "touchTargets", "mobileA11y"} /\ tpc = "done"
  /\ site.loads /\ site.reloads /\ site.h1 = 1
  /\ NothingEligible
  => verdict = "passed"

\* the uses of the page and of the context by the body, by position
Uses(op, arg) == { i \in 1..Len(used) : used[i].op = op /\ used[i].arg = arg }

\* C21: in 'should handle network issues gracefully' the context is offline
\* before the body navigates, and it is online again when the test has
\* ended, whether the navigation and the visibility assertion returned or
\* threw; it is offline only between the two calls of setOffline.
C21_OfflineRestoredOnEveryPath ==
  test = "networkIssues" =>
    /\ \A i \in Uses("goto", "/") :
         \E j \in Uses("setOffline", "true") : j < i
    /\ tpc = "done" => ~offline
    /\ offline => tpc \in {"try", "toBeVisible", "finally"}

C21_Witness ==
  /\ test = "networkIssues" /\ tpc = "done" /\ verdict = "failed"
  /\ \E i \in Uses("goto", "/") : ~used[i].ok
  /\ Uses("setOffline", "false") # {}
  /\ ~offline

\* what an href is, read off the address itself
HrefKind(link) ==
  CASE link = "" -> "none"
    [] link = "mailto:hi" -> "mailto"
    [] link = "tel:1" -> "tel"
    [] link = "#top" -> "fragment"
    [] link = "/about" -> "relative"
    [] OTHER -> "http"

\* the host an absolute address names
HostOf(link) ==
  CASE link = "https://qualtiva.solutions/a" -> "qualtiva.solutions"
    [] link = "https://x.io/" -> "x.io"
    [] link = "https://x.io/?u=qualtiva.solutions" -> "x.io"
    [] OTHER -> "none"

ExternalHttp(link) ==
  /\ HrefKind(link) = "http"
  /\ HostOf(link) \notin {"analytiqa.cloud", "qualtiva.solutions"}

Positions(list) == { list[k] : k \in 1..Len(list) }

\* C22: in 'should navigate to all main pages without errors' only the
\* first 10 links are examined; a link without href, or whose href starts
\* with 'mailto:', 'tel:' or '#', is never clicked; an external http link
\* (host neither analytiqa.cloud nor qualtiva.solutions) is checked for
\* visibility and never clicked; and the page is on '/' whenever the next
\* link is examined.
C22_NavigationLoop ==
  test = "navigate" =>
    /\ \A i \in Positions(examined) : i <= 10
    /\ \A i \in Positions(clicked) :
         /\ HrefKind(site.links[i]) \notin {"none", "mailto", "tel", "fragment"}
         /\ ~ExternalHttp(site.links[i])
    /\ \A i \in Positions(examined) :
         ExternalHttp(site.links[i]) => i \in Positions(shown)
    /\ tpc = "navigate" => location = "/"

\* C23: on a page that loads, 'should have proper heading structure'
\* passes exactly when the page has one h1 and no heading is more than one
\* level below the heading before it.
C23_HeadingStructure ==
  test = "headings" /\ tpc = "done" /\ site.loads =>
    LET hs == site.headings
    IN verdict = "passed" <=>
         /\ Cardinality({ i \in 1..Len(hs) : hs[i] = 1 }) = 1
         /\ \A i \in 1..Len(hs) : i < Len(hs) => hs[i + 1] - hs[i] <= 1

C23_Witness ==
  /\ test = "headings" /\ tpc = "done" /\ verdict = "passed"
  /\ site.headings = <<2, 1, 2>>

\* the error texts that name none of favicon, analytics, third-party
NamesNone == {"Favicon", "TypeError"}

\* C24: in 'should not have console errors' the console listener is there
\* before the navigation starts, every console error the page emits while
\* it loads is recorded, and on a page that loads the test fails exactly
\* when a recorded text contains none of 'favicon', 'analytics',
\* 'third-party'.
C24_ConsoleErrorsRecordedAndJudged ==
  test = "consoleErrors" =>
    /\ \A i \in Uses("goto", "/") : \E j \in Uses("on", "console") : j < i
    /\ Uses("goto", "/") # {} =>
         /\ \A k \in 1..Len(site.messages) :
              site.messages[k].type = "error" =>
                \E n \in 1..Len(consoleErrors) :
                  consoleErrors[n] = site.messages[k].text
         /\ Len(consoleErrors) =
              Cardinality({ k \in 1..Len(site.messages) :
                             site.messages[k].type = "error" })
    /\ tpc = "done" /\ site.loads =>
         (verdict = "failed" <=>
            \E n \in 1..Len(consoleErrors) : consoleErrors[n] \in NamesNone)

C24_Witness ==
  /\ test = "consoleErrors" /\ tpc = "done" /\ verdict = "passed"
  /\ consoleErrors = <<"GET /favicon.ico 404", "analytics blocked">>

\* C26 as stated: under a project where isMobile is false a test whose body
\* is inside if (isMobile) does nothing with the page, asserts nothing and
\* passes, whatever the site does.
C26_GuardedTestPassesOffMobile ==
  test \in GuardedTests /\ ~Device(project.device).isMobile /\ tpc = "done" =>
    used = << >> /\ verdict = "passed"

\* C26: under a project where isMobile is false the body of such a test
\* does nothing with the page and asserts nothing, and the test passes
\* exactly when its beforeEach, which navigates to '/', succeeds.
C26_GuardedBodyIdleOffMobile ==
  test \in GuardedTests /\ ~Device(project.device).isMobile /\ tpc = "done" =>
    /\ used = << >>
    /\ verdict = "passed" <=>
         site.loads /\ (test \in {"mobileBrowsers", "orientation"} => site.idle)

C26_Witness ==
  /\ test \in GuardedTests /\ project.name = "Edge" /\ tpc = "done"
  /\ used = << >> /\ verdict = "passed" /\ site.menuButton = "hidden"

(***************************************************************************)
(* Specifications: one per program.  The variables of the other program    *)
(* stay as they are.                                                       *)
(***************************************************************************)
UploaderSpec == UploaderInit /\ [][UploaderNext]_vars

\* the script runs statement after statement until it ends: every call it
\* makes returns or throws
UploaderFairSpec == UploaderSpec /\ WF_vars(UploaderNext)

RunSpec == RunInit /\ [][RunNext]_vars

ShellSpec == ShellInit /\ [][ShellNext]_vars

TestSpec == TestInit /\ [][TestNext]_vars

====
